---------------------------- MODULE Spec2Model ----------------------------
(***************************************************************************)
(* A model of one server process of the federated Tic-Tac-Toe system and   *)
(* of the load balancer its clients use:                                   *)
(*   GameState                  (src/src/models/GameState.ts)              *)
(*   TicTacToeService           (src/src/services/TicTacToeService.ts)     *)
(*   GameServer                 (src/unnamed/part_001)                     *)
(*   WebSocketFederationService (src/src/services/                         *)
(*                               WebSocketFederationService.ts)            *)
(*   LoadBalancerService        (src/unnamed/part_002)                     *)
(*                                                                         *)
(* Eleven specifications are given over the same variables.                   *)
(*   SpecStore : the TicTacToeService API called in any order, as its unit *)
(*               tests call it, for boards of several sizes.               *)
(*   SpecLobby : three clients join, leave and disconnect; the sweep runs. *)
(*   SpecSweep : three clients are matched into up to three games, go,     *)
(*               and the sweep runs.                                       *)
(*   SpecPlay  : two clients play while a federation peer reports          *)
(*               departures.                                               *)
(*   SpecFed   : two clients join while federation links open and close    *)
(*               and peers gossip.                                         *)
(*   SpecLinks : two federation links open and close while two clients     *)
(*               join and go.                                              *)
(*   SpecShared: sockets join under several player ids and close.          *)
(*   SpecGossip: the games advertised to a peer, and the peer's list of    *)
(*               them.                                                     *)
(*   SpecCreate: games are created with any board size and winning length. *)
(*   SpecDial  : the retry loop dials the configured peers while peers     *)
(*               dial in and links close.                                  *)
(*   SpecBalancer : the load balancer polls three servers and chooses.     *)
(* Every handler is one action: Node.js runs a handler to completion, and  *)
(* the handlers modelled here mutate the store before their first await.   *)
(***************************************************************************)
EXTENDS Integers, Sequences, FiniteSets, TLC

VARIABLES
    games,          \* TicTacToeService.games: gameId -> GameState
    nextGame,       \* number of games created so far (uuidv4 never repeats)
    playerToGame,   \* TicTacToeService.playerToGame: playerId -> gameId
    now,            \* the wall clock read by new Date() / Date.now(), in minutes
    call,           \* the operation of the last step and whether it succeeded
    lastMover,      \* history: per game, the symbol placed by the last accepted
                    \* move on the current board (Null when the board is empty)
    wsState,        \* client sockets accepted so far: ws -> "open" | "closing" | "closed"
    clients,        \* GameServer.clients: playerId -> ws, in insertion order
    clientGames,    \* GameServer.clientGames: ws -> gameId
    links,          \* live federation sockets: link -> the peerServerId its handlers hold
    connectedServers,       \* WebSocketFederationService.connectedServers: peerServerId -> link
    isFederated,            \* WebSocketFederationService.isFederated
    globalAvailableGames,   \* WebSocketFederationService.globalAvailableGames, in insertion order
    sent,           \* the client messages the last step sent, in order
    fedSent,        \* the federation messages the last step sent, in order
    serverRegistry, \* LoadBalancerService.serverRegistry: the stats per serverId,
                    \* in insertion order
    chosenServer,   \* the address chooseOptimalServer returned last (<<>> before)
    retry,          \* startFederationRetry: the interval, the ticks it has fired,
                    \* the 5-minute timer and the tick callbacks still running
    peerCache       \* per live link, the globalAvailableGames of the server at
                    \* its other end, as that server's handleAvailableGames
                    \* builds it from the lists this server sends

storeVars == <<games, nextGame, playerToGame, now, call, lastMover>>

gatewayVars == <<wsState, clients, clientGames, sent>>

federationVars == <<links, connectedServers, isFederated, globalAvailableGames, fedSent>>

balancerVars == <<serverRegistry, chosenServer>>

vars == <<games, nextGame, playerToGame, now, call, lastMover, wsState, clients,
          clientGames, links, connectedServers, isFederated, globalAvailableGames,
          sent, fedSent, serverRegistry, chosenServer, retry,
          peerCache>>

---------------------------------------------------------------------------
(* Bounds of the model.                                                    *)

MaxGames == 3
MaxLobbyGames == 2
MaxBoardSize == 4
MaxTime == 2
MaxSockets == 2
MaxLobbySockets == 3
MaxLinks == 2
MaxFedLinks == 1
MaxMarks == 2
MaxServers == 3
MaxClients == 2
MaxRounds == 2
TickMinutes == 30

(* Program constants.                                                      *)

DefaultBoardSize == 3
MinWinningLength == 3
DefaultTtlMinutes == 30
FederationPortOffset == 3000
ServerAPort == 3001
ServerBPort == 3002
RetryIntervalMs == 5000
RetryWindowMs == 300000

(* Identifiers drawn as inputs.                                            *)

Range(s) == {s[i] : i \in DOMAIN s}

Null == "null"
NoLine == <<>>          \* winningLine undefined
GameNames == <<"g1", "g2", "g3", "g4">>
PlayerNames == <<"p1", "p2", "p3">>
Players == Range(PlayerNames)
Symbols == {"X", "O"}


---------------------------------------------------------------------------
(* GameState                                                               *)

Cells(n) == (0 .. n - 1) \X (0 .. n - 1)

EmptyBoard(n) == [c \in Cells(n) |-> Null]

\* constructor(id, boardSize = 3, winningLength = boardSize)
NewGameState(id, boardSize, winningLength, t) ==
    [ id            |-> id,
      boardSize     |-> boardSize,
      winningLength |-> winningLength,
      board         |-> EmptyBoard(boardSize),
      status        |-> "waiting",
      players       |-> <<>>,
      winner        |-> Null,
      nextTurn      |-> Null,
      result        |-> "ongoing",
      winningLine   |-> NoLine,
      updatedAt     |-> t ]

NewPlayer(id, symbol, serverId) ==
    [id |-> id, symbol |-> symbol, serverId |-> serverId]

\* isFull as it would be with room for a third player
IsFullAtThree(g) == Len(g.players) = 3

IsFull(g) == Len(g.players) = 2

HasPlayer(g, playerId) == \E i \in DOMAIN g.players : g.players[i].id = playerId

\* players.find(p => p.id === playerId): the first match, or Null
GetPlayer(g, playerId) ==
    IF HasPlayer(g, playerId)
    THEN LET i == CHOOSE i \in DOMAIN g.players :
                     /\ g.players[i].id = playerId
                     /\ \A j \in 1 .. i - 1 : g.players[j].id # playerId
         IN g.players[i]
    ELSE Null

\* players.find(p => p.id !== playerId): the first other player, or Null
GetOpponent(g, playerId) ==
    IF \E i \in DOMAIN g.players : g.players[i].id # playerId
    THEN LET i == CHOOSE i \in DOMAIN g.players :
                     /\ g.players[i].id # playerId
                     /\ \A j \in 1 .. i - 1 : g.players[j].id = playerId
         IN g.players[i]
    ELSE Null

ExistingSymbols(g) == {g.players[i].symbol : i \in DOMAIN g.players}

\* addPlayer's symbol as it would be if it went by order of arrival alone
AssignedSymbolByArrival(g, symbol) ==
    IF Len(g.players) = 0 THEN "X" ELSE "O"

\* The symbol addPlayer gives a player who asked for `symbol`.
AssignedSymbol(g, symbol) ==
    IF "X" \notin ExistingSymbols(g) THEN "X"
    ELSE IF "O" \notin ExistingSymbols(g) THEN "O"
    ELSE symbol

\* GameState.addPlayer: [ok, game]
GameAddPlayer(g, player, t) ==
    IF IsFull(g) THEN [ok |-> FALSE, game |-> g]
    ELSE IF HasPlayer(g, player.id) THEN [ok |-> FALSE, game |-> g]
    ELSE LET p  == [player EXCEPT !.symbol = AssignedSymbol(g, player.symbol)]
             g1 == [g EXCEPT !.players = Append(g.players, p), !.updatedAt = t]
         IN [ok   |-> TRUE,
             game |-> IF IsFull(g1)
                      THEN [g1 EXCEPT !.status = "playing", !.nextTurn = "X"]
                      ELSE g1]

\* GameState.removePlayer
GameRemovePlayer(g, playerId, t) ==
    LET Keep(p) == p.id # playerId
    IN [g EXCEPT !.players = SelectSeq(g.players, Keep), !.updatedAt = t]

\* A variant of isBoardFull that is satisfied by one full row; DrawOnlyWhenFull
\* must not survive it.
IsBoardFullOneRow(g) ==
    \E r \in 0 .. g.boardSize - 1 : \A c \in 0 .. g.boardSize - 1 : g.board[<<r, c>>] # Null

IsBoardFull(g) == \A c \in Cells(g.boardSize) : g.board[c] # Null

InBounds(n, r, c) == r >= 0 /\ r < n /\ c >= 0 /\ c < n

\* One leg of checkDirection: the linear indices met walking from (r, c) by
\* (dr, dc) while in bounds and holding `symbol`, in walking order.
RECURSIVE Walk(_, _, _, _, _, _, _)
Walk(board, n, r, c, dr, dc, symbol) ==
    IF InBounds(n, r, c) /\ board[<<r, c>>] = symbol
    THEN <<r * n + c>> \o Walk(board, n, r + dr, c + dc, dr, dc, symbol)
    ELSE <<>>

Reverse(s) == [i \in 1 .. Len(s) |-> s[Len(s) + 1 - i]]

\* A variant of checkDirection that walks the positive leg only; WinDetected
\* must not survive it.
CheckDirectionForwardOnly(board, n, k, row, col, dr, dc) ==
    LET symbol    == board[<<row, col>>]
        positions == <<row * n + col>> \o Walk(board, n, row + dr, col + dc, dr, dc, symbol)
    IN IF Len(positions) >= k THEN positions ELSE NoLine

\* checkDirection(deltaRow, deltaCol): the run through (row, col), pushes for the
\* positive leg and unshifts for the negative leg; NoLine (null) when shorter than k.
CheckDirection(board, n, k, row, col, dr, dc) ==
    LET symbol    == board[<<row, col>>]
        positive  == Walk(board, n, row + dr, col + dc, dr, dc, symbol)
        negative  == Walk(board, n, row - dr, col - dc, -dr, -dc, symbol)
        positions == Reverse(negative) \o <<row * n + col>> \o positive
    IN IF Len(positions) >= k THEN positions ELSE NoLine

\* Array.prototype.sort((a, b) => a - b), by insertion
RECURSIVE InsertSorted(_, _)
InsertSorted(s, x) ==
    IF s = <<>> THEN <<x>>
    ELSE IF x < Head(s) THEN <<x>> \o s
    ELSE <<Head(s)>> \o InsertSorted(Tail(s), x)

RECURSIVE SortAscending(_)
SortAscending(s) ==
    IF s = <<>> THEN <<>> ELSE InsertSorted(SortAscending(Tail(s)), Head(s))

\* horizontal, vertical, diagonal \, diagonal /
Directions == << <<0, 1>>, <<1, 0>>, <<1, 1>>, <<1, -1>> >>

NoWinner == [hasWinner |-> FALSE, winner |-> Null, winningLine |-> NoLine]

\* GameState.checkWinWithLastMove
CheckWinWithLastMove(g, row, col) ==
    LET symbol == g.board[<<row, col>>]
        n      == g.boardSize
        k      == g.winningLength
        Line(i) == CheckDirection(g.board, n, k, row, col,
                                  Directions[i][1], Directions[i][2])
        hits   == {i \in DOMAIN Directions : Line(i) # NoLine}
    IN IF symbol = Null THEN NoWinner
       ELSE IF hits = {} THEN NoWinner
       ELSE LET first == CHOOSE i \in hits : \A j \in hits : i <= j
            IN [hasWinner   |-> TRUE,
                winner      |-> symbol,
                winningLine |-> SortAscending(Line(first))]

OtherSymbol(s) == IF s = "X" THEN "O" ELSE "X"

\* A variant of the checks of makeMove without the turn check;
\* RejectedMoveChangesNothing must not survive it.
MoveAllowedAnyTurn(g, playerId, row, col) ==
    /\ g.status = "playing"
    /\ g.result = "ongoing"
    /\ HasPlayer(g, playerId)
    /\ InBounds(g.boardSize, row, col)
    /\ g.board[<<row, col>>] = Null

\* The checks GameState.makeMove makes before it touches the board.
MoveAllowed(g, playerId, row, col) ==
    /\ g.status = "playing"
    /\ g.result = "ongoing"
    /\ HasPlayer(g, playerId)
    /\ g.nextTurn = GetPlayer(g, playerId).symbol
    /\ InBounds(g.boardSize, row, col)
    /\ g.board[<<row, col>>] = Null

\* GameState.makeMove: [ok, game]
GameMakeMove(g, playerId, row, col, t) ==
    IF ~MoveAllowed(g, playerId, row, col) THEN [ok |-> FALSE, game |-> g]
    ELSE LET player == GetPlayer(g, playerId)
             g1 == [g EXCEPT !.board[<<row, col>>] = player.symbol,
                             !.updatedAt = t,
                             !.nextTurn = OtherSymbol(g.nextTurn)]
             win == CheckWinWithLastMove(g1, row, col)
         IN [ok   |-> TRUE,
             game |-> IF win.hasWinner
                      THEN [g1 EXCEPT !.status = "finished",
                                      !.result = "win",
                                      !.winner = win.winner,
                                      !.winningLine = win.winningLine]
                      ELSE IF IsBoardFull(g1)
                      THEN [g1 EXCEPT !.status = "finished", !.result = "draw"]
                      ELSE g1]


---------------------------------------------------------------------------
(* TicTacToeService.  Its operations are operators on the two maps; each   *)
(* returns the maps as the call leaves them together with its result.      *)

GameIndex(id) == CHOOSE i \in DOMAIN GameNames : GameNames[i] = id

\* Array.from(games.values()): Map iteration is insertion order, which is
\* creation order since a game id is never set twice.
RECURSIVE GamesFrom(_, _)
GamesFrom(gs, i) ==
    IF i > Len(GameNames) THEN <<>>
    ELSE IF GameNames[i] \in DOMAIN gs
    THEN <<gs[GameNames[i]]>> \o GamesFrom(gs, i + 1)
    ELSE GamesFrom(gs, i + 1)

GameValues(gs) == GamesFrom(gs, 1)

IsActive(g) == g.status = "waiting" \/ g.status = "playing"

\* getActiveGames
GetActiveGames(gs) == SelectSeq(GameValues(gs), IsActive)

MapRemove(f, k) == [x \in DOMAIN f \ {k} |-> f[x]]

MapPut(f, k, v) == [x \in DOMAIN f \cup {k} |-> IF x = k THEN v ELSE f[x]]

\* The test that lets addPlayerToGame drop a player's mapping to another game.
CanRelease(gs, existingGameId) ==
    \/ existingGameId \notin DOMAIN gs
    \/ gs[existingGameId].status = "finished"
    \/ Len(gs[existingGameId].players) = 0

Outcome(success, error, gs, p2g) ==
    [success |-> success, error |-> error, games |-> gs, playerToGame |-> p2g]

\* addPlayerToGame as it would be without its branch for re-joining the same game
AddPlayerToGameNoRejoin(gs, p2g, gameId, playerId, playerSymbol, serverId, t) ==
    IF gameId \notin DOMAIN gs THEN Outcome(FALSE, "Game not found", gs, p2g)
    ELSE IF gs[gameId].status = "finished"
    THEN Outcome(FALSE, "Game is already finished", gs, p2g)
    ELSE IF playerId \in DOMAIN p2g /\ p2g[playerId] # gameId
            /\ ~CanRelease(gs, p2g[playerId])
    THEN Outcome(FALSE, "Player is already in another game", gs, p2g)
    ELSE LET released == MapRemove(p2g, playerId)
             player == NewPlayer(playerId,
                                 IF playerSymbol = Null THEN "X" ELSE playerSymbol,
                                 IF serverId = Null THEN "unknown" ELSE serverId)
             r == GameAddPlayer(gs[gameId], player, t)
         IN IF ~r.ok
            THEN Outcome(FALSE, "Unable to add player to game", gs, released)
            ELSE Outcome(TRUE, Null, [gs EXCEPT ![gameId] = r.game],
                         MapPut(released, playerId, gameId))

\* addPlayerToGame as it would be without the test for a Finished game
AddPlayerToGameAfterEnd(gs, p2g, gameId, playerId, playerSymbol, serverId, t) ==
    IF gameId \notin DOMAIN gs THEN Outcome(FALSE, "Game not found", gs, p2g)
    ELSE IF playerId \in DOMAIN p2g /\ p2g[playerId] # gameId
            /\ ~CanRelease(gs, p2g[playerId])
    THEN Outcome(FALSE, "Player is already in another game", gs, p2g)
    ELSE IF playerId \in DOMAIN p2g /\ p2g[playerId] = gameId
    THEN Outcome(TRUE, Null, gs, p2g)
    ELSE LET released == MapRemove(p2g, playerId)
             player == NewPlayer(playerId,
                                 IF playerSymbol = Null THEN "X" ELSE playerSymbol,
                                 IF serverId = Null THEN "unknown" ELSE serverId)
             r == GameAddPlayer(gs[gameId], player, t)
         IN IF ~r.ok
            THEN Outcome(FALSE, "Unable to add player to game", gs, released)
            ELSE Outcome(TRUE, Null, [gs EXCEPT ![gameId] = r.game],
                         MapPut(released, playerId, gameId))

\* addPlayerToGame(gameId, playerId, playerSymbol?, serverId?)
AddPlayerToGame(gs, p2g, gameId, playerId, playerSymbol, serverId, t) ==
    IF gameId \notin DOMAIN gs THEN Outcome(FALSE, "Game not found", gs, p2g)
    ELSE IF gs[gameId].status = "finished"
    THEN Outcome(FALSE, "Game is already finished", gs, p2g)
    ELSE IF playerId \in DOMAIN p2g /\ p2g[playerId] # gameId
            /\ ~CanRelease(gs, p2g[playerId])
    THEN Outcome(FALSE, "Player is already in another game", gs, p2g)
    ELSE IF playerId \in DOMAIN p2g /\ p2g[playerId] = gameId
    THEN Outcome(TRUE, Null, gs, p2g)
    ELSE LET released == MapRemove(p2g, playerId)
             player == NewPlayer(playerId,
                                 IF playerSymbol = Null THEN "X" ELSE playerSymbol,
                                 IF serverId = Null THEN "unknown" ELSE serverId)
             r == GameAddPlayer(gs[gameId], player, t)
         IN IF ~r.ok
            THEN Outcome(FALSE, "Unable to add player to game", gs, released)
            ELSE Outcome(TRUE, Null, [gs EXCEPT ![gameId] = r.game],
                         MapPut(released, playerId, gameId))

\* makeMove(gameId, playerId, row, col)
MakeMove(gs, p2g, gameId, playerId, row, col, t) ==
    IF gameId \notin DOMAIN gs THEN Outcome(FALSE, "Game not found", gs, p2g)
    ELSE LET r == GameMakeMove(gs[gameId], playerId, row, col, t)
         IN IF ~r.ok THEN Outcome(FALSE, "Invalid move", gs, p2g)
            ELSE Outcome(TRUE, Null, [gs EXCEPT ![gameId] = r.game], p2g)

\* removePlayerFromGame(playerId): success stands for a non-null return, and
\* error then carries the id of the game returned.
RemovePlayerFromGame(gs, p2g, playerId, t) ==
    IF playerId \notin DOMAIN p2g THEN Outcome(FALSE, Null, gs, p2g)
    ELSE IF p2g[playerId] \notin DOMAIN gs THEN Outcome(FALSE, Null, gs, p2g)
    ELSE LET gameId == p2g[playerId]
         IN Outcome(TRUE, gameId,
                    [gs EXCEPT ![gameId] = GameRemovePlayer(gs[gameId], playerId, t)],
                    MapRemove(p2g, playerId))

\* The games cleanupFinishedGames(olderThanMinutes) deletes at time t.
Purged(gs, olderThanMinutes, t) ==
    {id \in DOMAIN gs : /\ gs[id].status = "finished"
                        /\ gs[id].updatedAt < t - olderThanMinutes}

PlayerIds(g) == {g.players[i].id : i \in DOMAIN g.players}

\* cleanupFinishedGames: error carries the count returned.
CleanupFinishedGames(gs, p2g, olderThanMinutes, t) ==
    LET gone    == Purged(gs, olderThanMinutes, t)
        unmapped == UNION {PlayerIds(gs[id]) : id \in gone}
    IN Outcome(TRUE, Cardinality(gone),
               [id \in DOMAIN gs \ gone |-> gs[id]],
               [p \in DOMAIN p2g \ unmapped |-> p2g[p]])

---------------------------------------------------------------------------
(* History: the symbol placed by the last accepted move on each board.     *)

Marks(g) == Cardinality({c \in Cells(g.boardSize) : g.board[c] # Null})

NextLastMover(gs, gs2, lm) ==
    [id \in DOMAIN gs2 |->
        IF id \notin DOMAIN gs THEN Null
        ELSE IF gs2[id].board = gs[id].board THEN lm[id]
        ELSE IF Marks(gs2[id]) = 0 THEN Null
        ELSE LET c == CHOOSE c \in Cells(gs2[id].boardSize) :
                          gs2[id].board[c] # gs[id].board[c]
             IN gs2[id].board[c]]

---------------------------------------------------------------------------
(* GameServer and WebSocketFederationService: state and helpers.           *)

WsNames == <<"w1", "w2", "w3">>
LinkNames == <<"l1", "l2">>

\* The process was started as `npm run server 3002`: Server${port - 3000}.
ServerNames == <<"Server1", "Server2", "Server3">>
ThisServer == ServerNames[2]

\* parseInt(serverId.replace('Server', '')): the index of a port-derived
\* identifier, NaN for any other identifier such as 'ServerA'.
NaN == -1

ServerIndex(serverId) ==
    IF \E i \in DOMAIN ServerNames : ServerNames[i] = serverId
    THEN CHOOSE i \in DOMAIN ServerNames : ServerNames[i] = serverId
    ELSE NaN

\* SERVER_CONSTANTS.FEDERATION_PORT_OFFSET + serverIndex
RemotePort(serverId) ==
    IF ServerIndex(serverId) = NaN THEN NaN
    ELSE FederationPortOffset + ServerIndex(serverId)

\* The port a server listens on: the port it was started with, from which its
\* identifier derives, or SERVER_A_PORT when it was started without one, as
\* 'ServerA'.
ListenPort(serverId) ==
    IF serverId = "ServerA" THEN ServerAPort
    ELSE FederationPortOffset + ServerIndex(serverId)

GatewayInit ==
    /\ wsState = [w \in {} |-> "open"]
    /\ clients = <<>>
    /\ clientGames = [w \in {} |-> Null]
    /\ sent = <<>>

FederationInit ==
    /\ links = [l \in {} |-> Null]
    /\ connectedServers = [n \in {} |-> Null]
    /\ isFederated = FALSE
    /\ globalAvailableGames = <<>>
    /\ fedSent = <<>>

\* new LoadBalancerService(): nothing polled, nothing chosen.
BalancerInit ==
    /\ serverRegistry = <<>>
    /\ chosenServer = <<>>

\* No retry interval is armed before connectToServers has run.
RetryInit ==
    retry = [interval |-> "none", elapsed |-> 0, expired |-> FALSE, rounds |-> <<>>]

\* No peer is connected, so no peer holds a list of this server's games.
PeerInit ==
    peerCache = [l \in {} |-> <<>>]

\* A message to a client.  Every message has the same fields; a and b carry
\*   error:          a = the error text
\*   update:         a = "empty" or "marked" (the board), b = nextTurn
\*   game_start:     a = yourSymbol, b = opponentSymbol
\*   win:            a = the winner
\*   redirect:       a = serverId, gameId = the remote game, port
Msg(to, type, gameId, a, b, port) ==
    [to |-> to, type |-> type, gameId |-> gameId, a |-> a, b |-> b, port |-> port]

ErrorMsg(ws, text) == Msg(ws, "error", Null, text, Null, 0)

UpdateMsg(ws, g) ==
    Msg(ws, "update", g.id, IF Marks(g) = 0 THEN "empty" ELSE "marked", g.nextTurn, 0)

\* A federation message, with the links it was written to.
FedMsg(type, gameId, playerId, cell, list) ==
    [type |-> type, gameId |-> gameId, playerId |-> playerId, cell |-> cell,
     games |-> list, originServer |-> ThisServer, to |-> {}]

\* clients.get / set / delete: a Map keeps the position of a key that is set again.
ClientsGet(cl, id) ==
    IF \E i \in DOMAIN cl : cl[i].id = id
    THEN cl[CHOOSE i \in DOMAIN cl : cl[i].id = id].ws
    ELSE Null

ClientsSet(cl, id, ws) ==
    IF \E i \in DOMAIN cl : cl[i].id = id
    THEN [i \in DOMAIN cl |-> IF cl[i].id = id THEN [id |-> id, ws |-> ws] ELSE cl[i]]
    ELSE Append(cl, [id |-> id, ws |-> ws])

ClientsDelete(cl, id) ==
    LET Keep(e) == e.id # id IN SelectSeq(cl, Keep)

\* ws && ws.readyState === WebSocket.OPEN
IsOpen(wsS, ws) == ws \in DOMAIN wsS /\ wsS[ws] = "open"

\* The state a handler works on, threaded through the calls it makes.
World ==
    [games |-> games, playerToGame |-> playerToGame, clients |-> clients,
     clientGames |-> clientGames, sent |-> <<>>, fedSent |-> <<>>]

\* sendMessage to each recipient whose socket is open
SendAll(w, wsS, msgs) ==
    LET Open(msg) == IsOpen(wsS, msg.to)
    IN [w EXCEPT !.sent = @ \o SelectSeq(msgs, Open)]

\* broadcastGameState
BroadcastGameState(w, wsS, gameId) ==
    IF gameId \notin DOMAIN w.games THEN w
    ELSE LET g == w.games[gameId]
         IN SendAll(w, wsS, [i \in DOMAIN g.players |->
                                UpdateMsg(ClientsGet(w.clients, g.players[i].id), g)])

\* sendGameEndMessages
SendGameEndMessages(w, wsS, gameId) ==
    LET g == w.games[gameId]
        To(i) == ClientsGet(w.clients, g.players[i].id)
    IN IF g.result = "win" /\ g.winner # Null
       THEN SendAll(w, wsS, [i \in DOMAIN g.players |->
                               Msg(To(i), "win", g.id, g.winner, Null, 0)])
       ELSE IF g.result = "draw"
       THEN SendAll(w, wsS, [i \in DOMAIN g.players |->
                               Msg(To(i), "draw", g.id, Null, Null, 0)])
       ELSE w

\* isFederationActive
IsFederationActive == isFederated /\ DOMAIN connectedServers # {}

\* broadcastFederationMessage: to every connected peer socket
BroadcastFederationMessage(w, msg) ==
    IF ~isFederated THEN w
    ELSE [w EXCEPT !.fedSent =
              Append(@, [msg EXCEPT !.to = {connectedServers[n] : n \in DOMAIN connectedServers}])]

\* broadcastAvailableGames: the local active games that have one player
BroadcastAvailableGames(w) ==
    LET One(g) == Len(g.players) = 1
        available == SelectSeq(GetActiveGames(w.games), One)
    IN IF ~IsFederationActive THEN w
       ELSE IF available = <<>> THEN w
       ELSE BroadcastFederationMessage(w,
                FedMsg("available_games", Null, Null, <<>>,
                       [i \in DOMAIN available |-> available[i].id]))

\* broadcastPlayerJoined
BroadcastPlayerJoined(w, playerId, gameId) ==
    IF ~IsFederationActive THEN w
    ELSE BroadcastAvailableGames(
             BroadcastFederationMessage(w, FedMsg("player_joined", gameId, playerId, <<>>, <<>>)))

\* broadcastMove
BroadcastMove(w, playerId, row, col, gameId) ==
    IF ~IsFederationActive THEN w
    ELSE BroadcastFederationMessage(w, FedMsg("game_move", gameId, playerId, <<row, col>>, <<>>))

\* broadcastPlayerLeft
BroadcastPlayerLeft(w, playerId, gameId) ==
    IF ~IsFederationActive THEN w
    ELSE BroadcastFederationMessage(w, FedMsg("player_left", gameId, playerId, <<>>, <<>>))

\* cleanupClient, the cancellation of a game in progress: the game becomes
\* Finished with result Ongoing, its first remaining player is notified if that
\* player's socket is open, and that socket's game is forgotten.
CancelGame(w, wsS, gameId) ==
    LET g  == w.games[gameId]
        w1 == [w EXCEPT !.games[gameId].status = "finished",
                        !.games[gameId].result = "ongoing"]
    IN IF g.players = <<>> THEN w1
       ELSE LET clientWs == ClientsGet(w.clients, g.players[1].id)
                w2 == SendAll(w1, wsS, <<Msg(clientWs, "game_cancelled", gameId,
                                              Null, Null, 0)>>)
            IN [w2 EXCEPT !.clientGames = MapRemove(@, clientWs)]

\* cleanupClient(ws)
CleanupClient(w, wsS, ws) ==
    LET gameId == IF ws \in DOMAIN w.clientGames THEN w.clientGames[ws] ELSE Null
        w1     == [w EXCEPT !.clientGames = MapRemove(@, ws)]
        hits   == {i \in DOMAIN w.clients : w.clients[i].ws = ws}
    IN IF hits = {} THEN w1
       ELSE LET first    == CHOOSE i \in hits : \A j \in hits : i <= j
                playerId == w.clients[first].id
                w2 == [w1 EXCEPT !.clients = ClientsDelete(@, playerId)]
                r  == RemovePlayerFromGame(w2.games, w2.playerToGame, playerId, now)
                w3 == [w2 EXCEPT !.games = r.games, !.playerToGame = r.playerToGame]
            IN IF gameId = Null THEN w2
               ELSE BroadcastPlayerLeft(
                        IF r.success /\ r.games[r.error].status = "playing"
                        THEN CancelGame(w3, wsS, r.error)
                        ELSE BroadcastGameState(w3, wsS, gameId),
                        playerId, gameId)

\* findAvailableGame as it would be if it took the newest remote entry
FindAvailableGameNewestRemote(gs, active, cache) ==
    LET One(g)   == Len(g.players) = 1
        Empty(g) == Len(g.players) = 0
        Remote(e) == e.playerCount = 1
        gamesWithOnePlayer == SelectSeq(GetActiveGames(gs), One)
        emptyGames == SelectSeq(GetActiveGames(gs), Empty)
        remote == SelectSeq(cache, Remote)
    IN IF gamesWithOnePlayer # <<>> THEN <<gamesWithOnePlayer[1].id>>
       ELSE IF emptyGames # <<>> THEN <<emptyGames[1].id>>
       ELSE IF active /\ remote # <<>>
       THEN <<"redirect", remote[Len(remote)].serverId, remote[Len(remote)].gameId>>
       ELSE <<>>

\* findAvailableGame as it would be if it looked for an empty game first
FindAvailableGameEmptyFirst(gs, active, cache) ==
    LET One(g)   == Len(g.players) = 1
        Empty(g) == Len(g.players) = 0
        Remote(e) == e.playerCount = 1
        gamesWithOnePlayer == SelectSeq(GetActiveGames(gs), One)
        emptyGames == SelectSeq(GetActiveGames(gs), Empty)
        remote == SelectSeq(cache, Remote)
    IN IF emptyGames # <<>> THEN <<emptyGames[1].id>>
       ELSE IF gamesWithOnePlayer # <<>> THEN <<gamesWithOnePlayer[1].id>>
       ELSE IF active /\ remote # <<>>
       THEN <<"redirect", remote[1].serverId, remote[1].gameId>>
       ELSE <<>>

\* findAvailableGame.  A string is modelled by its fields between colons: a game
\* id is <<id>>, `redirect:${serverId}:${gameId}` is <<"redirect", serverId,
\* gameId>>, and null is <<>>.
FindAvailableGame(gs, active, cache) ==
    LET One(g)   == Len(g.players) = 1
        Empty(g) == Len(g.players) = 0
        Remote(e) == e.playerCount = 1
        gamesWithOnePlayer == SelectSeq(GetActiveGames(gs), One)
        emptyGames == SelectSeq(GetActiveGames(gs), Empty)
        remote == SelectSeq(cache, Remote)
    IN IF gamesWithOnePlayer # <<>> THEN <<gamesWithOnePlayer[1].id>>
       ELSE IF emptyGames # <<>> THEN <<emptyGames[1].id>>
       ELSE IF active /\ remote # <<>>
       THEN <<"redirect", remote[1].serverId, remote[1].gameId>>
       ELSE <<>>

---------------------------------------------------------------------------
(* SpecStore: one game of the service, from createGame to its end, driven  *)
(* through the service API as the unit tests drive it.                     *)

BoardSizes == DefaultBoardSize .. MaxBoardSize

\* The state after `new TicTacToeService()` and one createGame(n, k).
StoreInit ==
    \E n \in BoardSizes, k \in MinWinningLength .. MaxBoardSize :
        /\ k <= n
        /\ games = [id \in {GameNames[1]} |-> NewGameState(id, n, k, 0)]
        /\ nextGame = 1
        /\ playerToGame = [p \in {} |-> Null]
        /\ now = 0
        /\ call = [op |-> "createGame", success |-> TRUE]
        /\ lastMover = [id \in {GameNames[1]} |-> Null]
        /\ GatewayInit
        /\ FederationInit
        /\ BalancerInit
        /\ RetryInit
        /\ PeerInit

\* Player ids are names the clients choose.  A run that differs from another
\* only by renaming players shows nothing new, so an id is drawn only if it is
\* already known to the process or is the first id that is not.
KnownPlayers ==
    DOMAIN playerToGame \cup UNION {PlayerIds(games[id]) : id \in DOMAIN games}

PlayerInputs ==
    KnownPlayers \cup
    {PlayerNames[i] : i \in {i \in DOMAIN PlayerNames :
                               \A j \in 1 .. i - 1 : PlayerNames[j] \in KnownPlayers}}

\* The cells drawn for a board of size n.  A 3x3 board receives every cell, so
\* that it can fill up.  A bigger board receives the cells of its first row,
\* the first three cells of its main diagonal and the cell (2, 0): enough for a
\* row, a diagonal \ and a diagonal / of three, and for a row longer than k.
\* Four probes lie outside the board.
MoveInputs(n) ==
    (IF n = DefaultBoardSize THEN Cells(n)
     ELSE {c \in Cells(n) : \/ c[1] = 0
                            \/ (c[1] = c[2] /\ c[1] <= 2)
                            \/ c = <<2, 0>>})
    \cup {<<-1, 0>>, <<0, -1>>, <<n, 0>>, <<0, n>>}

Apply(out) ==
    /\ games' = out.games
    /\ playerToGame' = out.playerToGame
    /\ lastMover' = NextLastMover(games, out.games, lastMover)

StoreAddPlayer(gameId, playerId, symbol) ==
    /\ LET out == AddPlayerToGame(games, playerToGame, gameId, playerId, symbol,
                                  "server1", now)
       IN /\ Apply(out)
          /\ call' = [op |-> "addPlayerToGame", success |-> out.success]
    /\ UNCHANGED <<balancerVars, retry, peerCache, nextGame, now, gatewayVars, federationVars>>

StoreMakeMove(gameId, playerId, row, col) ==
    /\ LET out == MakeMove(games, playerToGame, gameId, playerId, row, col, now)
       IN /\ Apply(out)
          /\ call' = [op |-> "makeMove", success |-> out.success]
    /\ UNCHANGED <<balancerVars, retry, peerCache, nextGame, now, gatewayVars, federationVars>>

StoreNext ==
    \/ \E id \in DOMAIN games, p \in PlayerInputs, s \in {Null, "O"} :
           StoreAddPlayer(id, p, s)
    \/ StoreAddPlayer("nogame", PlayerNames[1], Null)
    \/ \E id \in DOMAIN games, p \in PlayerInputs :
           \E c \in MoveInputs(games[id].boardSize) : StoreMakeMove(id, p, c[1], c[2])
    \/ StoreMakeMove("nogame", PlayerNames[1], 0, 0)

SpecStore == StoreInit /\ [][StoreNext]_vars

---------------------------------------------------------------------------
(* Properties of a single game, checked under SpecStore.                   *)

\* A step in which game id received one more mark: an accepted makeMove.
MarkPlaced(id) ==
    /\ id \in DOMAIN games /\ id \in DOMAIN games'
    /\ games'[id].board # games[id].board
    /\ Marks(games'[id]) = Marks(games[id]) + 1

\* The cell such a step marked.
PlacedCell(id) ==
    CHOOSE c \in Cells(games[id].boardSize) : games'[id].board[c] # games[id].board[c]

\* The cells of the unbroken run of the symbol of cell c through c along d.
RunThrough(board, n, c, d) ==
    LET At(t) == <<c[1] + t * d[1], c[2] + t * d[2]>>
        Same(t) == At(t) \in Cells(n) /\ board[At(t)] = board[c]
    IN {At(t) : t \in {t \in -(n - 1) .. (n - 1) :
                          \A u \in (IF t >= 0 THEN 0 .. t ELSE t .. 0) : Same(u)}}

RECURSIVE Ascending(_)
Ascending(S) ==
    IF S = {} THEN <<>>
    ELSE LET m == CHOOSE x \in S : \A y \in S : x <= y
         IN <<m>> \o Ascending(S \ {m})

\* The ascending linear indices of the runs through c that have k cells or more.
LongRuns(g, c) ==
    {Ascending({e[1] * g.boardSize + e[2] : e \in RunThrough(g.board, g.boardSize, c, d)}) :
        d \in {d \in Range(Directions) :
                  Cardinality(RunThrough(g.board, g.boardSize, c, d)) >= g.winningLength}}

\* C1: for every N and k with 3 <= k <= N, an accepted makeMove that makes k or
\* more cells of the mover's symbol contiguous in a row, a column or a diagonal
\* through the placed cell ends the game in that step: status Finished, result
\* Win, winner the mover's symbol, winningLine the ascending linear indices
\* row*N+col of such a run.
WinDetected ==
    [][\A id \in DOMAIN games :
          (/\ MarkPlaced(id)
           /\ MinWinningLength <= games[id].winningLength
           /\ games[id].winningLength <= games[id].boardSize)
          => LET runs == LongRuns(games'[id], PlacedCell(id))
             IN runs # {}
                => /\ games'[id].status = "finished"
                   /\ games'[id].result = "win"
                   /\ games'[id].board[PlacedCell(id)] = games[id].nextTurn
                   /\ games'[id].winner = games[id].nextTurn
                   /\ games'[id].winningLine \in runs]_vars

\* A 4x4 game with k = 3 won by a row of four: the run is longer than k.
WinDetectedWitness ==
    \E id \in DOMAIN games :
        /\ games[id].boardSize = 4 /\ games[id].winningLength = 3
        /\ games[id].result = "win" /\ games[id].winner = "X"
        /\ games[id].winningLine = <<0, 1, 2, 3>>

\* C5: an accepted move that fills the last empty cell without making k in a
\* row for the mover ends the game Finished with result Draw and no winner; a
\* last-cell move that does make k in a row yields Win; and no game has result
\* Draw while a cell is empty.
DrawOnlyWhenFull ==
    [][\A id \in DOMAIN games' :
          /\ (games'[id].result = "draw"
                => \A c \in Cells(games'[id].boardSize) : games'[id].board[c] # Null)
          /\ (/\ MarkPlaced(id)
              /\ \A c \in Cells(games'[id].boardSize) : games'[id].board[c] # Null)
             => IF LongRuns(games'[id], PlacedCell(id)) = {}
                THEN /\ games'[id].status = "finished"
                     /\ games'[id].result = "draw"
                     /\ games'[id].winner = Null
                ELSE /\ games'[id].status = "finished"
                     /\ games'[id].result = "win"]_vars

\* A full 3x3 board that ended in a draw.
DrawOnlyWhenFullWitness ==
    \E id \in DOMAIN games :
        /\ games[id].result = "draw" /\ games[id].status = "finished"
        /\ games[id].winner = Null
        /\ Marks(games[id]) = games[id].boardSize * games[id].boardSize

\* The reasons for which makeMove(gameId, playerId, row, col) must be rejected.
MustReject(gameId, playerId, row, col) ==
    \/ gameId \notin DOMAIN games
    \/ games[gameId].status # "playing"
    \/ games[gameId].result # "ongoing"
    \/ playerId \notin PlayerIds(games[gameId])
    \/ \E i \in DOMAIN games[gameId].players :
           /\ games[gameId].players[i].id = playerId
           /\ games[gameId].players[i].symbol # games[gameId].nextTurn
    \/ row < 0 \/ row >= games[gameId].boardSize
    \/ col < 0 \/ col >= games[gameId].boardSize
    \/ games[gameId].board[<<row, col>>] # Null

\* C6: a makeMove that must be rejected (game not Playing or result not
\* Ongoing, player not in the game, not the player's turn, row or column
\* outside [0, N), cell occupied, unknown game) returns failure, and a makeMove
\* that returns failure leaves the game (board, nextTurn, status, result,
\* winner, winningLine, players) as it was.
RejectedMoveChangesNothing ==
    \A gameId \in DOMAIN games \cup {"nogame"}, playerId \in Players :
        \A c \in MoveInputs(IF gameId \in DOMAIN games THEN games[gameId].boardSize
                            ELSE DefaultBoardSize) :
            LET out == MakeMove(games, playerToGame, gameId, playerId, c[1], c[2], now)
            IN /\ MustReject(gameId, playerId, c[1], c[2]) => ~out.success
               /\ ~out.success => out.games = games /\ out.playerToGame = playerToGame

\* A move has just been rejected in a game that is Playing with marks on its
\* board.
RejectedMoveChangesNothingWitness ==
    /\ call = [op |-> "makeMove", success |-> FALSE]
    /\ \E id \in DOMAIN games : games[id].status = "playing" /\ Marks(games[id]) >= 2

---------------------------------------------------------------------------
(* The process: each handler of GameServer, of the federation service and  *)
(* of the bootstrap is one action.                                         *)

Init ==
    /\ games = [id \in {} |-> Null]
    /\ nextGame = 0
    /\ playerToGame = [p \in {} |-> Null]
    /\ now = 0
    /\ call = [op |-> "start", success |-> TRUE]
    /\ lastMover = [id \in {} |-> Null]
    /\ GatewayInit
    /\ FederationInit
    /\ BalancerInit
    /\ RetryInit
    /\ PeerInit

\* The handler leaves the world w behind.
Commit(w) ==
    /\ games' = w.games
    /\ playerToGame' = w.playerToGame
    /\ lastMover' = NextLastMover(games, w.games, lastMover)
    /\ clients' = w.clients
    /\ clientGames' = w.clientGames
    /\ sent' = w.sent
    /\ fedSent' = w.fedSent

\* wss.on('connection'): a client socket is accepted.
Connect(maxSockets) ==
    /\ Cardinality(DOMAIN wsState) < maxSockets
    /\ wsState' = MapPut(wsState, WsNames[Cardinality(DOMAIN wsState) + 1], "open")
    /\ call' = [op |-> "connect", success |-> TRUE]
    /\ Commit(World)
    /\ UNCHANGED <<balancerVars, retry, peerCache, nextGame, now, links, connectedServers, isFederated,
                   globalAvailableGames>>

\* handleJoin, the branch taken when the target starts with 'redirect:'
JoinRedirect(ws, target) ==
    /\ wsState' = [wsState EXCEPT ![ws] = "closing"]
    /\ call' = [op |-> "join", success |-> FALSE]
    /\ Commit(SendAll(World, wsState,
                      <<Msg(ws, "redirect", target[3], target[2], Null,
                            RemotePort(target[2]))>>))
    /\ UNCHANGED nextGame

\* handleJoin, the local branch; gameId is Null when a game has to be created
JoinLocal(ws, gameId, playerId, symbol) ==
    LET create == gameId = Null
        id  == IF create THEN GameNames[nextGame + 1] ELSE gameId
        gs1 == IF create
               THEN MapPut(games, id, NewGameState(id, DefaultBoardSize, DefaultBoardSize, now))
               ELSE games
        playersBefore == IF id \in DOMAIN gs1 THEN Len(gs1[id].players) ELSE 0
        out == AddPlayerToGame(gs1, playerToGame, id, playerId, symbol, ThisServer, now)
        w0  == [World EXCEPT !.games = out.games, !.playerToGame = out.playerToGame]
        w1  == [w0 EXCEPT !.clients = ClientsSet(@, playerId, ws),
                          !.clientGames = MapPut(@, ws, id)]
        g   == out.games[id]
        start == [i \in DOMAIN g.players |->
                     Msg(ClientsGet(w1.clients, g.players[i].id), "game_start", id,
                         g.players[i].symbol, GetOpponent(g, g.players[i].id).symbol, 0)]
        w2  == IF playersBefore = 1 /\ Len(g.players) = 2
               THEN SendAll(w1, wsState, start) ELSE w1
        w3  == BroadcastGameState(w2, wsState, id)
    IN /\ create => nextGame < MaxGames
       /\ nextGame' = IF create THEN nextGame + 1 ELSE nextGame
       /\ call' = [op |-> "join", success |-> out.success]
       /\ wsState' = wsState
       /\ IF ~out.success
          THEN Commit(SendAll(w0, wsState, <<ErrorMsg(ws, out.error)>>))
          ELSE IF HasPlayer(g, playerId)
          THEN Commit(BroadcastPlayerJoined(w3, playerId, id))
          \* game.getPlayer(playerId) is undefined: reading its symbol throws,
          \* and handleMessage answers the exception
          ELSE Commit(SendAll(w3, wsState, <<ErrorMsg(ws, "Failed to process message")>>))

\* handleJoin
Join(ws, msgGameId, playerId, symbol) ==
    /\ IsOpen(wsState, ws)
    /\ LET target == IF msgGameId # Null THEN <<msgGameId>>
                     ELSE FindAvailableGame(games, IsFederationActive, globalAvailableGames)
       IN IF Len(target) >= 2 /\ target[1] = "redirect"
          THEN JoinRedirect(ws, target)
          ELSE JoinLocal(ws, IF target = <<>> THEN Null ELSE target[1], playerId, symbol)
    /\ UNCHANGED <<balancerVars, retry, peerCache, now, links, connectedServers, isFederated, globalAvailableGames>>

TotalMarks ==
    Cardinality({<<id, c>> \in (DOMAIN games) \X Cells(DefaultBoardSize) :
                    games[id].board[c] # Null})

\* handleMove
Move(ws, msgGameId, playerId, row, col) ==
    /\ IsOpen(wsState, ws)
    /\ TotalMarks < MaxMarks
    /\ LET gameId == IF msgGameId # Null THEN msgGameId
                     ELSE IF ws \in DOMAIN clientGames THEN clientGames[ws] ELSE Null
           out == MakeMove(games, playerToGame, gameId, playerId, row, col, now)
           w1  == BroadcastGameState([World EXCEPT !.games = out.games], wsState, gameId)
           w2  == BroadcastMove(w1, playerId, row, col, gameId)
       IN IF gameId = Null
          THEN /\ Commit(SendAll(World, wsState,
                                 <<ErrorMsg(ws, "No game associated with client")>>))
               /\ call' = [op |-> "move", success |-> FALSE]
          ELSE /\ call' = [op |-> "move", success |-> out.success]
               /\ IF ~out.success
                  THEN Commit(SendAll(World, wsState, <<ErrorMsg(ws, out.error)>>))
                  ELSE IF out.games[gameId].status = "finished"
                  THEN Commit(SendGameEndMessages(w2, wsState, gameId))
                  ELSE Commit(w2)
    /\ UNCHANGED <<balancerVars, retry, peerCache, nextGame, now, wsState, links, connectedServers, isFederated,
                   globalAvailableGames>>

\* the reset as it would be if it kept the board
ResetGameKeepBoard(g) ==
    [g EXCEPT !.status = "waiting", !.players = <<>>, !.nextTurn = Null,
              !.winner = Null, !.result = "ongoing"]

\* handleLeave, the reset of a game that was Playing
ResetGame(g) ==
    [g EXCEPT !.status = "waiting", !.players = <<>>, !.nextTurn = Null,
              !.winner = Null, !.result = "ongoing", !.board = EmptyBoard(g.boardSize)]

\* handleLeave
Leave(ws, msgGameId, playerId) ==
    /\ IsOpen(wsState, ws)
    /\ LET gameId == IF ws \in DOMAIN clientGames THEN clientGames[ws] ELSE msgGameId
           wasPlaying == gameId \in DOMAIN games /\ games[gameId].status = "playing"
           r  == RemovePlayerFromGame(games, playerToGame, playerId, now)
           w1 == [World EXCEPT !.games = r.games, !.playerToGame = r.playerToGame]
           w2 == IF wasPlaying
                 THEN [w1 EXCEPT !.games[gameId] = ResetGame(@)]
                 ELSE w1
           w3 == BroadcastPlayerLeft(BroadcastGameState(w2, wsState, gameId),
                                     playerId, gameId)
       IN Commit(CleanupClient(IF gameId = Null THEN World ELSE w3, wsState, ws))
    /\ call' = [op |-> "leave", success |-> TRUE]
    /\ UNCHANGED <<balancerVars, retry, peerCache, nextGame, now, wsState, links, connectedServers, isFederated,
                   globalAvailableGames>>

\* ws.on('close'): handleDisconnect
Disconnect(ws) ==
    /\ ws \in DOMAIN wsState
    /\ wsState[ws] # "closed"
    /\ wsState' = [wsState EXCEPT ![ws] = "closed"]
    /\ Commit(CleanupClient(World, [wsState EXCEPT ![ws] = "closed"], ws))
    /\ call' = [op |-> "disconnect", success |-> TRUE]
    /\ UNCHANGED <<balancerVars, retry, peerCache, nextGame, now, links, connectedServers, isFederated,
                   globalAvailableGames>>

\* The periodic cleanupFinishedGames() of the bootstrap.
Sweep ==
    /\ LET out == CleanupFinishedGames(games, playerToGame, DefaultTtlMinutes, now)
       IN /\ Commit([World EXCEPT !.games = out.games,
                                  !.playerToGame = out.playerToGame])
          /\ call' = [op |-> "sweep", success |-> out.error > 0]
    /\ UNCHANGED <<balancerVars, retry, peerCache, nextGame, now, wsState, links, connectedServers, isFederated,
                   globalAvailableGames>>

\* Time passes.  The clock is read only to stamp updatedAt and to compare it
\* with the cutoff of a sweep, which looks at finished games only.
Tick ==
    /\ now < MaxTime * TickMinutes
    /\ \E id \in DOMAIN games : games[id].status = "finished"
    /\ now' = now + TickMinutes
    /\ call' = [op |-> "tick", success |-> TRUE]
    /\ Commit(World)
    /\ UNCHANGED <<balancerVars, retry, peerCache, nextGame, wsState, links, connectedServers, isFederated,
                   globalAvailableGames>>

\* The peer this server dials: SERVER_A_PORT, named `Server${port - 3000}`.
DialedPeer == ServerNames[1]

\* The name handleFederationPeerConnection gives every peer that dials in.
AcceptedPeer == IF ThisServer = "ServerA" THEN "ServerB" ELSE "ServerA"

FreeLink == LinkNames[Cardinality(DOMAIN links) + 1]

Register(peerServerId) ==
    /\ Cardinality(DOMAIN links) < MaxLinks
    /\ FreeLink \notin DOMAIN links
    /\ links' = MapPut(links, FreeLink, peerServerId)
    /\ connectedServers' = MapPut(connectedServers, peerServerId, FreeLink)
    /\ isFederated' = TRUE
    /\ Commit(World)
    /\ UNCHANGED <<balancerVars, peerCache, nextGame, now, wsState, globalAvailableGames>>

\* A dial of this server succeeds: connectToServer in the initial round, or a
\* retry round taken as one step; dialing goes on until a peer is connected.
LinkDial ==
    /\ ~isFederated
    /\ DialedPeer \notin DOMAIN connectedServers
    /\ Register(DialedPeer)
    /\ call' = [op |-> "dial", success |-> TRUE]
    /\ UNCHANGED retry

\* handleFederationPeerConnection
LinkAccept ==
    /\ Register(AcceptedPeer)
    /\ call' = [op |-> "accept", success |-> TRUE]
    /\ UNCHANGED retry

\* ws.on('close') of setupFederationMessageHandler; the peer behind a closed
\* link is followed no further.
LinkClose(l) ==
    /\ l \in DOMAIN links
    /\ links' = MapRemove(links, l)
    /\ connectedServers' = MapRemove(connectedServers, links[l])
    /\ isFederated' = IF DOMAIN connectedServers \ {links[l]} = {} THEN FALSE
                      ELSE isFederated
    /\ call' = [op |-> "link_close", success |-> TRUE]
    /\ Commit(World)
    /\ peerCache' = MapRemove(peerCache, l)
    /\ UNCHANGED <<balancerVars, retry, nextGame, now, wsState, globalAvailableGames>>

\* handleFederationMessage + handlePlayerJoined: logged only
FedPlayerJoined(l, gameId, playerId, originServer) ==
    /\ l \in DOMAIN links
    /\ call' = [op |-> "fed_player_joined", success |-> originServer # ThisServer]
    /\ Commit(World)
    /\ UNCHANGED <<balancerVars, retry, peerCache, nextGame, now, wsState, links, connectedServers, isFederated,
                   globalAvailableGames>>

\* handleFederationMessage + handleMoveReceived
FedMove(l, gameId, playerId, row, col, originServer) ==
    /\ l \in DOMAIN links
    /\ TotalMarks < MaxMarks
    /\ LET out == MakeMove(games, playerToGame, gameId, playerId, row, col, now)
       IN IF originServer = ThisServer
          THEN /\ Commit(World)
               /\ call' = [op |-> "fed_move", success |-> FALSE]
          ELSE /\ Commit([World EXCEPT !.games = out.games])
               /\ call' = [op |-> "fed_move", success |-> out.success]
    /\ UNCHANGED <<balancerVars, retry, peerCache, nextGame, now, wsState, links, connectedServers, isFederated,
                   globalAvailableGames>>

\* handlePlayerLeft as it would run if it passed the departure on to the peers
FedPlayerLeftRebroadcast(l, playerId, originServer) ==
    /\ l \in DOMAIN links
    /\ LET r == RemovePlayerFromGame(games, playerToGame, playerId, now)
           w == [World EXCEPT !.games = r.games, !.playerToGame = r.playerToGame]
       IN IF originServer = ThisServer
          THEN /\ Commit(World)
               /\ call' = [op |-> "fed_player_left", success |-> FALSE]
          ELSE /\ Commit(IF r.success THEN BroadcastPlayerLeft(w, playerId, r.error)
                         ELSE w)
               /\ call' = [op |-> "fed_player_left", success |-> r.success]
    /\ UNCHANGED <<balancerVars, retry, peerCache, nextGame, now, wsState, links, connectedServers,
                   isFederated, globalAvailableGames>>

\* handlePlayerLeft as it would run without the origin test of handleFederationMessage
FedPlayerLeftUnchecked(l, playerId, originServer) ==
    /\ l \in DOMAIN links
    /\ LET r == RemovePlayerFromGame(games, playerToGame, playerId, now)
       IN /\ Commit([World EXCEPT !.games = r.games,
                                  !.playerToGame = r.playerToGame])
          /\ call' = [op |-> "fed_player_left", success |-> r.success]
    /\ UNCHANGED <<balancerVars, retry, peerCache, nextGame, now, wsState, links, connectedServers, isFederated,
                   globalAvailableGames>>

\* handleFederationMessage + handlePlayerLeft
FedPlayerLeft(l, playerId, originServer) ==
    /\ l \in DOMAIN links
    /\ LET r == RemovePlayerFromGame(games, playerToGame, playerId, now)
       IN IF originServer = ThisServer
          THEN /\ Commit(World)
               /\ call' = [op |-> "fed_player_left", success |-> FALSE]
          ELSE /\ Commit([World EXCEPT !.games = r.games,
                                       !.playerToGame = r.playerToGame])
               /\ call' = [op |-> "fed_player_left", success |-> r.success]
    /\ UNCHANGED <<balancerVars, retry, peerCache, nextGame, now, wsState, links, connectedServers, isFederated,
                   globalAvailableGames>>

\* globalAvailableGames.set: a Map keeps the position of a key that is set again
CacheSet(cache, e) ==
    IF \E i \in DOMAIN cache : cache[i].gameId = e.gameId
    THEN [i \in DOMAIN cache |-> IF cache[i].gameId = e.gameId THEN e ELSE cache[i]]
    ELSE Append(cache, e)

RECURSIVE CacheSetAll(_, _)
CacheSetAll(cache, list) ==
    IF list = <<>> THEN cache
    ELSE CacheSetAll(CacheSet(cache, Head(list)), Tail(list))

\* handleAvailableGames(data, fromServerId)
HandleAvailableGames(cache, list, fromServerId) ==
    LET Others(e) == e.serverId # fromServerId
    IN CacheSetAll(SelectSeq(cache, Others), list)

\* handleFederationMessage + handleAvailableGames
FedAvailableGames(l, list, originServer) ==
    /\ l \in DOMAIN links
    /\ globalAvailableGames' =
           IF originServer = ThisServer THEN globalAvailableGames
           ELSE HandleAvailableGames(globalAvailableGames, list, links[l])
    /\ call' = [op |-> "fed_available_games", success |-> originServer # ThisServer]
    /\ Commit(World)
    /\ UNCHANGED <<balancerVars, retry, peerCache, nextGame, now, wsState, links, connectedServers, isFederated>>

\* The cells drawn for the moves of the process: two cells of the board and one
\* outside it.
GatewayMoveInputs == {<<0, 0>>, <<1, 1>>, <<0, DefaultBoardSize>>}

\* What a peer advertises: broadcastAvailableGames lists the sender's one-player
\* games under the sender's own identifier.  Game g7 lives on a server started
\* as Server1, and so does g9, which that server lists once g7 has filled; game
\* g8 lives on a server started without a port, as ServerA.
RemoteEntry(gameId, serverId) ==
    [gameId |-> gameId, serverId |-> serverId, playerCount |-> 1]

AvailableGamesInputs ==
    { [list |-> <<RemoteEntry("g7", "Server1")>>, originServer |-> "Server1"],
      [list |-> <<RemoteEntry("g9", "Server1")>>, originServer |-> "Server1"],
      [list |-> <<RemoteEntry("g8", "ServerA")>>, originServer |-> "ServerA"],
      [list |-> <<RemoteEntry("g7", ThisServer)>>, originServer |-> ThisServer] }

Origins == {DialedPeer, ThisServer}

\* The player a peer's player_joined names: a client of the peer, which has
\* no socket on this server.
RemotePlayer == PlayerNames[MaxSockets + 1]

\* JoinMessage.playerId: every client names itself in its messages, and the
\* client on the i-th socket is the i-th player.
PlayerOf(ws) == PlayerNames[CHOOSE i \in DOMAIN WsNames : WsNames[i] = ws]

---------------------------------------------------------------------------
(* SpecLobby: clients come, join, leave and go, and the sweep runs; no     *)
(* move is made and no federation peer is connected.                       *)

NextLobby ==
    \/ Connect(MaxLobbySockets)
    \/ \E ws \in DOMAIN wsState, id \in DOMAIN games \cup {Null} :
           Join(ws, id, PlayerOf(ws), Null) /\ nextGame' <= MaxLobbyGames
    \/ \E ws \in DOMAIN wsState : Leave(ws, Null, PlayerOf(ws))
    \/ \E ws \in DOMAIN wsState : Disconnect(ws)
    \/ Sweep
    \/ Tick

SpecLobby == Init /\ [][NextLobby]_vars

---------------------------------------------------------------------------
(* SpecSweep: three clients are matched by the server, their sockets close, *)
(* and the sweep runs; up to MaxGames games are created.                   *)

NextSweep ==
    \/ Connect(MaxLobbySockets)
    \/ \E ws \in DOMAIN wsState : Join(ws, Null, PlayerOf(ws), Null)
    \/ \E ws \in DOMAIN wsState : Disconnect(ws)
    \/ Sweep
    \/ Tick

SpecSweep == Init /\ [][NextSweep]_vars

---------------------------------------------------------------------------
(* SpecPlay: two clients play, and a federation peer that dialed in        *)
(* reports departures.                                                     *)

NextPlay ==
    \/ Connect(MaxSockets)
    \/ \E ws \in DOMAIN wsState, id \in DOMAIN games \cup {Null} :
           Join(ws, id, PlayerOf(ws), Null)
    \/ \E ws \in DOMAIN wsState, c \in GatewayMoveInputs :
           Move(ws, Null, PlayerOf(ws), c[1], c[2])
    \/ \E ws \in DOMAIN wsState : Leave(ws, Null, PlayerOf(ws))
    \/ \E ws \in DOMAIN wsState : Disconnect(ws)
    \/ LinkAccept /\ Cardinality(DOMAIN links') <= MaxFedLinks
    \/ \E l \in DOMAIN links : LinkClose(l)
    \/ \E l \in DOMAIN links, p \in KnownPlayers : FedPlayerLeft(l, p, AcceptedPeer)

SpecPlay == Init /\ [][NextPlay]_vars

---------------------------------------------------------------------------
(* SpecFed: matchmaking across servers.  Clients join and go while         *)
(* federation links open and close and peers gossip; no local move is made.*)

NextFed ==
    \/ Connect(MaxSockets)
    \/ \E ws \in DOMAIN wsState, id \in DOMAIN games \cup {Null} :
           Join(ws, id, PlayerOf(ws), Null)
    \/ \E ws \in DOMAIN wsState : Disconnect(ws)
    \/ LinkDial /\ Cardinality(DOMAIN links') <= MaxFedLinks
    \/ LinkAccept /\ Cardinality(DOMAIN links') <= MaxFedLinks
    \/ \E l \in DOMAIN links : LinkClose(l)
    \/ \E l \in DOMAIN links, id \in DOMAIN games \cup {"g7"}, o \in Origins :
           FedPlayerJoined(l, id, RemotePlayer, o)
    \/ \E l \in DOMAIN links, c \in GatewayMoveInputs, o \in Origins :
           FedMove(l, "g7", PlayerNames[1], c[1], c[2], o)
    \/ \E l \in DOMAIN links, p \in KnownPlayers, o \in Origins : FedPlayerLeft(l, p, o)
    \/ \E l \in DOMAIN links, m \in AvailableGamesInputs :
           FedAvailableGames(l, m.list, m.originServer)

SpecFed == Init /\ [][NextFed]_vars

---------------------------------------------------------------------------
(* Properties of the lobby, checked under SpecLobby.                       *)

\* C2: no game has more than 2 players, and addPlayerToGame for a player who
\* is not in a game that already has 2 players returns failure and leaves that
\* game (board, nextTurn, players) as it was.
FullGameRejectsJoin ==
    \A id \in DOMAIN games :
        /\ Len(games[id].players) <= 2
        /\ \A p \in Players :
               (Len(games[id].players) = 2 /\ p \notin PlayerIds(games[id]))
               => LET out == AddPlayerToGame(games, playerToGame, id, p, Null,
                                             ThisServer, now)
                  IN ~out.success /\ out.games[id] = games[id]

\* The games a sweep with time-to-live ttl has to remove: Finished, and last
\* updated more than ttl minutes ago.
Expired(ttl) ==
    {id \in DOMAIN games : games[id].status = "finished" /\ now - games[id].updatedAt > ttl}

\* C4: after a sweep every game that was Finished with updatedAt older than
\* the time-to-live is gone from the store, and no entry of playerToGame refers
\* to a game the sweep removed.
SweepLeavesNoDanglingMapping ==
    [][call'.op = "sweep"
          => /\ \A id \in Expired(DefaultTtlMinutes) : id \notin DOMAIN games'
             /\ \A p \in DOMAIN playerToGame' :
                    playerToGame'[p] \notin Expired(DefaultTtlMinutes)]_vars

---------------------------------------------------------------------------
(* Properties of play, checked under SpecPlay.                             *)

\* C3: the symbols of the successive accepted moves on a board alternate X,
\* O, X, O, ... starting with X; nextTurn toggles with every accepted move and
\* a step that places no mark by a rejected move leaves nextTurn as it was.
TurnsAlternate ==
    [][\A id \in DOMAIN games :
          /\ MarkPlaced(id)
             => /\ games'[id].board[PlacedCell(id)] =
                       (IF lastMover[id] = Null THEN "X" ELSE OtherSymbol(lastMover[id]))
                /\ games'[id].nextTurn = OtherSymbol(games[id].nextTurn)
          /\ (call'.op = "move" /\ ~call'.success /\ id \in DOMAIN games')
             => games'[id].nextTurn = games[id].nextTurn]_vars

\* A step in which one of the two players of the Playing game id went away.
PlayerWentAway(id) ==
    /\ id \in DOMAIN games /\ id \in DOMAIN games'
    /\ games[id].status = "playing"
    /\ Len(games[id].players) = 2
    /\ PlayerIds(games'[id]) # PlayerIds(games[id])
    /\ PlayerIds(games'[id]) \subseteq PlayerIds(games[id])

\* C7: when one of the two players of a Playing game goes away by a socket
\* close, the game becomes Finished with result Ongoing and GameCancelled is
\* sent to the remaining opponent; when the player goes away by a Leave
\* message, an Update with an all-empty board is sent and the game is Waiting
\* with no players; and a Finished game stays Finished.
DepartureInPlaying ==
    [][\A id \in DOMAIN games :
          /\ (PlayerWentAway(id) /\ call'.op = "disconnect")
             => /\ games'[id].status = "finished"
                /\ games'[id].result = "ongoing"
                /\ \E i \in DOMAIN sent', k \in DOMAIN games'[id].players :
                       /\ sent'[i].type = "game_cancelled"
                       /\ sent'[i].gameId = id
                       /\ sent'[i].to = ClientsGet(clients, games'[id].players[k].id)
          /\ (PlayerWentAway(id) /\ call'.op = "leave")
             => /\ games'[id].status = "waiting"
                /\ games'[id].players = <<>>
                /\ \E i \in DOMAIN sent' :
                       /\ sent'[i].type = "update"
                       /\ sent'[i].gameId = id
                       /\ sent'[i].a = "empty"
          /\ (games[id].status = "finished" /\ id \in DOMAIN games')
             => games'[id].status = "finished"]_vars

---------------------------------------------------------------------------
(* Properties of matchmaking, checked under SpecFed.                       *)

\* The local games that are Waiting or Playing and have n players, oldest first.
ActiveWith(n) ==
    LET Has(g) == IsActive(g) /\ Len(g.players) = n
    IN SelectSeq(GameValues(games), Has)

\* The entries of the availability cache with playerCount 1, oldest first.
RemoteWithOne ==
    LET One(e) == e.playerCount = 1
    IN SelectSeq(globalAvailableGames, One)

\* What findAvailableGame() returns in the current state.
Found == FindAvailableGame(games, IsFederationActive, globalAvailableGames)

\* C8 as stated: whenever no local active game has 0 or 1 players and the
\* availability cache holds an entry with playerCount 1 for game g on server
\* S, findAvailableGame() returns 'redirect:S:g'.
RedirectWheneverCached ==
    \A i \in DOMAIN globalAvailableGames :
        (/\ ActiveWith(0) = <<>> /\ ActiveWith(1) = <<>>
         /\ globalAvailableGames[i].playerCount = 1)
        => Found = <<"redirect", globalAvailableGames[i].serverId,
                     globalAvailableGames[i].gameId>>

\* C8: whenever no local active game has 0 or 1 players, the federation is
\* active (a peer is connected) and the availability cache holds an entry with
\* playerCount 1, findAvailableGame() returns 'redirect:S:g' for the oldest
\* such entry, game g on server S; with the federation inactive it returns no
\* redirect, whatever the cache holds.
RedirectToOldestWhenFederationActive ==
    /\ (/\ ActiveWith(0) = <<>> /\ ActiveWith(1) = <<>>
        /\ IsFederationActive
        /\ RemoteWithOne # <<>>)
       => Found = <<"redirect", RemoteWithOne[1].serverId, RemoteWithOne[1].gameId>>
    /\ ~IsFederationActive => (Found = <<>> \/ Found[1] # "redirect")

\* A join has just been redirected to game g7 on Server1 while the cache also
\* holds the newer entry g8 and both local clients are busy playing.
RedirectToOldestWhenFederationActiveWitness ==
    /\ call = [op |-> "join", success |-> FALSE]
    /\ Len(sent) = 1 /\ sent[1].type = "redirect"
    /\ sent[1].a = "Server1" /\ sent[1].gameId = "g7"
    /\ Len(RemoteWithOne) = 2 /\ RemoteWithOne[1].gameId = "g7"
    /\ \E id \in DOMAIN games : games[id].status = "playing"
    /\ Found = <<"redirect", "Server1", "g7">>

\* C9 as stated: findAvailableGame() prefers a local Waiting game with exactly
\* 1 player, then a local game with 0 players, then a remote cache entry with
\* playerCount 1; it returns a redirect only when no local active game has
\* fewer than 2 players, and no target only when none of the three exists.
PriorityAsStated ==
    LET waitingOne == {id \in DOMAIN games : /\ games[id].status = "waiting"
                                             /\ Len(games[id].players) = 1}
        empty == {id \in DOMAIN games : IsActive(games[id]) /\ games[id].players = <<>>}
    IN /\ waitingOne # {} => \E id \in waitingOne : Found = <<id>>
       /\ (waitingOne = {} /\ empty # {}) => \E id \in empty : Found = <<id>>
       /\ (waitingOne = {} /\ empty = {} /\ RemoteWithOne # <<>>)
          => Found = <<"redirect", RemoteWithOne[1].serverId, RemoteWithOne[1].gameId>>
       /\ (Found # <<>> /\ Found[1] = "redirect")
          => (ActiveWith(0) = <<>> /\ ActiveWith(1) = <<>>)
       /\ Found = <<>> => (waitingOne = {} /\ empty = {} /\ RemoteWithOne = <<>>)

\* C9: findAvailableGame() returns the oldest local active (Waiting or
\* Playing) game with exactly 1 player; failing that the oldest local active
\* game with 0 players; failing that, and only if the federation is active,
\* a redirect to the oldest cache entry with playerCount 1; and otherwise no
\* target, even if the cache holds entries.
PriorityLocalThenActiveFederation ==
    /\ ActiveWith(1) # <<>> => Found = <<ActiveWith(1)[1].id>>
    /\ (ActiveWith(1) = <<>> /\ ActiveWith(0) # <<>>) => Found = <<ActiveWith(0)[1].id>>
    /\ (ActiveWith(1) = <<>> /\ ActiveWith(0) = <<>>)
       => IF IsFederationActive /\ RemoteWithOne # <<>>
          THEN Found = <<"redirect", RemoteWithOne[1].serverId, RemoteWithOne[1].gameId>>
          ELSE Found = <<>>

\* All three kinds of target exist at once, the federation is active, and
\* the one-player game was created after the empty one.
PriorityLocalThenActiveFederationWitness ==
    /\ IsFederationActive /\ RemoteWithOne # <<>>
    /\ ActiveWith(0) # <<>> /\ ActiveWith(1) # <<>>
    /\ GameIndex(ActiveWith(0)[1].id) < GameIndex(ActiveWith(1)[1].id)
    /\ Found = <<ActiveWith(1)[1].id>>

\* C10: a Join that resolves to a redirect target sends one Redirect naming
\* the target server, the port that server listens on and the remote game,
\* closes the connection, and changes no local state: no game, no entry of
\* playerToGame, clients or clientGames, and no federation message is sent.
RedirectNamesPortAndChangesNothing ==
    [][\A ws \in DOMAIN wsState :
          (/\ Found # <<>> /\ Found[1] = "redirect"
           /\ Join(ws, Null, PlayerOf(ws), Null))
          => /\ sent' = <<Msg(ws, "redirect", Found[3], Found[2], Null,
                              ListenPort(Found[2]))>>
             /\ wsState' = [wsState EXCEPT ![ws] = "closing"]
             /\ fedSent' = <<>>
             /\ UNCHANGED <<games, nextGame, playerToGame, clients, clientGames>>]_vars

---------------------------------------------------------------------------
(* Properties of the players of a game, checked under SpecPlay.            *)

\* The players of game id before a step; none if the step creates the game.
PlayersBefore(id) == IF id \in DOMAIN games THEN games[id].players ELSE <<>>

\* A step that appended one player to game id.
PlayerAdded(id) ==
    /\ id \in DOMAIN games'
    /\ Len(games'[id].players) = Len(PlayersBefore(id)) + 1
    /\ SubSeq(games'[id].players, 1, Len(PlayersBefore(id))) = PlayersBefore(id)

\* No two players of game g hold the same symbol.
DistinctSymbols(g) ==
    \A i, k \in DOMAIN g.players : i # k => g.players[i].symbol # g.players[k].symbol

---------------------------------------------------------------------------
(* Properties of the player->game index, checked under SpecLobby.          *)

\* addPlayerToGame(playerToGame[p], p, symbol) in the current state.
Rejoin(p, symbol) ==
    AddPlayerToGame(games, playerToGame, playerToGame[p], p, symbol, ThisServer, now)

\* C12 as stated: addPlayerToGame for a player already mapped to the same
\* game returns success and changes neither the game nor playerToGame.
RejoinSucceeds ==
    \A p \in DOMAIN playerToGame, symbol \in {Null, "O"} :
        /\ Rejoin(p, symbol).success
        /\ Rejoin(p, symbol).games = games
        /\ Rejoin(p, symbol).playerToGame = playerToGame

\* C12: addPlayerToGame for a player already mapped to the same game changes
\* neither the game (players, status, nextTurn, board) nor playerToGame, so
\* that repeating it equals doing it once; it returns success if the game is
\* in the store and not Finished, and failure otherwise.
RejoinChangesNothing ==
    \A p \in DOMAIN playerToGame, symbol \in {Null, "O"} :
        LET out == Rejoin(p, symbol)
            again == AddPlayerToGame(out.games, out.playerToGame, playerToGame[p], p,
                                     symbol, ThisServer, now)
        IN /\ out.games = games
           /\ out.playerToGame = playerToGame
           /\ again = out
           /\ out.success <=> (/\ playerToGame[p] \in DOMAIN games
                               /\ games[playerToGame[p]].status # "finished")

\* The player left behind in a cancelled game has just asked to join it again
\* and was told that the game is finished.
RejoinChangesNothingWitness ==
    /\ call = [op |-> "join", success |-> FALSE]
    /\ Len(sent) = 1 /\ sent[1].a = "Game is already finished"
    /\ \E p \in DOMAIN playerToGame :
           /\ playerToGame[p] \in DOMAIN games
           /\ games[playerToGame[p]].status = "finished"
           /\ HasPlayer(games[playerToGame[p]], p)
           /\ ClientsGet(clients, p) = sent[1].to

---------------------------------------------------------------------------
(* Properties of membership, checked under SpecSweep.                      *)

\* The Waiting or Playing games that list player p.
ActiveGamesOf(p) ==
    {id \in DOMAIN games : IsActive(games[id]) /\ HasPlayer(games[id], p)}

\* C13: a player id is listed in at most one Waiting or Playing game, and
\* addPlayerToGame to another game that is not Finished, for a player listed in
\* a Waiting or Playing game, fails with 'Player is already in another game'.
OneActiveGamePerPlayer ==
    \A p \in Players :
        /\ Cardinality(ActiveGamesOf(p)) <= 1
        /\ \A id \in DOMAIN games :
               (/\ ActiveGamesOf(p) # {} /\ id \notin ActiveGamesOf(p)
                /\ games[id].status # "finished")
               => LET out == AddPlayerToGame(games, playerToGame, id, p, Null,
                                             ThisServer, now)
                  IN ~out.success /\ out.error = "Player is already in another game"

---------------------------------------------------------------------------
(* Properties of the federation handlers, checked under SpecFed.           *)

\* A step that changes nothing of the store, the gateway, the cache and the
\* peer set, and sends nothing.
NoEffect ==
    /\ UNCHANGED <<games, nextGame, playerToGame, wsState, clients, clientGames,
                   links, connectedServers, isFederated, globalAvailableGames>>
    /\ sent' = <<>>
    /\ fedSent' = <<>>

\* C14: a federation message whose originServer is this server's own
\* identifier is dropped: games, playerToGame, the availability cache and the
\* peer set are unchanged and nothing is sent, whatever the message is.  A
\* step that has an effect is not the handling of such a message.
SelfOriginDropped ==
    [][\/ NoEffect
       \/ \A l \in DOMAIN links :
              /\ call'.op = "fed_player_left"
                 => \A p \in Players : ~FedPlayerLeft(l, p, ThisServer)
              /\ call'.op = "fed_move"
                 => \A p \in Players, id \in DOMAIN games \cup {"g7"}, c \in GatewayMoveInputs :
                        ~FedMove(l, id, p, c[1], c[2], ThisServer)
              /\ call'.op = "fed_player_joined"
                 => \A p \in Players : ~FedPlayerJoined(l, "g7", p, ThisServer)
              /\ call'.op = "fed_available_games"
                 => \A m \in AvailableGamesInputs :
                        ~FedAvailableGames(l, m.list, ThisServer)]_vars

\* A player_left has just been dropped although every player it could name
\* is mapped to a game of the store: it carried this server's own identifier.
SelfOriginDroppedWitness ==
    /\ call = [op |-> "fed_player_left", success |-> FALSE]
    /\ KnownPlayers # {}
    /\ KnownPlayers = DOMAIN playerToGame
    /\ \A p \in KnownPlayers : playerToGame[p] \in DOMAIN games
    /\ \E id \in DOMAIN games : games[id].status = "playing"

---------------------------------------------------------------------------
(* The load balancer of the client.  It polls the /status endpoint of the  *)
(* servers it was constructed with and keeps the last answer of each in    *)
(* serverRegistry, a Map keyed by serverId.                                *)

\* The ports the balancer was constructed with: the two defaults and the
\* servers started after them.
ServerUrls == [i \in 1 .. MaxServers |-> IF i = 2 THEN ServerBPort
                                         ELSE ServerAPort + (i - 1)]

\* `ws://localhost:${port}`
Url(port) == <<"ws://localhost", port>>

\* The /status answer of the server listening on port, with n clients joined.
\* A server started with a port argument calls itself Server<port - 3000>.
StatusResponse(port, n) ==
    [serverId |-> <<"Server", port - FederationPortOffset>>,
     port |-> port,
     connectedClients |-> n]

\* Map.set on serverRegistry: a known serverId keeps its place.
RegistrySet(registry, stats) ==
    IF \E i \in DOMAIN registry : registry[i].serverId = stats.serverId
    THEN [i \in DOMAIN registry |->
              IF registry[i].serverId = stats.serverId THEN stats ELSE registry[i]]
    ELSE Append(registry, stats)

\* The loop of selectLeastLoadedServer from index i on.
RECURSIVE LeastLoadedFrom(_, _, _)
LeastLoadedFrom(servers, i, leastLoaded) ==
    IF i > Len(servers) THEN leastLoaded
    ELSE LeastLoadedFrom(servers, i + 1,
                         IF servers[i].connectedClients < leastLoaded.connectedClients
                         THEN servers[i] ELSE leastLoaded)

\* selectLeastLoadedServer as it would be if a later tie replaced the choice
SelectLastLeastLoadedServer(servers) ==
    LET n == Len(servers)
        Min == CHOOSE m \in {servers[i].connectedClients : i \in 1 .. n} :
                   \A i \in 1 .. n : m <= servers[i].connectedClients
        last == CHOOSE i \in 1 .. n :
                    /\ servers[i].connectedClients = Min
                    /\ \A j \in (i + 1) .. n : servers[j].connectedClients # Min
    IN Url(servers[last].port)

SelectLeastLoadedServer(servers) ==
    Url(LeastLoadedFrom(servers, 2, servers[1]).port)

\* What chooseOptimalServer returns once its polls are in.  With an empty
\* registry it tries the urls in order; responding is the set of urls that
\* answer then.
ChooseOptimalServerResult(registry, responding) ==
    IF Len(registry) = 0
    THEN IF responding = {} THEN Url(ServerUrls[1])
         ELSE Url(ServerUrls[CHOOSE i \in responding :
                                 \A j \in responding : i <= j])
    ELSE IF Len(registry) = 1 THEN Url(registry[1].port)
    ELSE SelectLeastLoadedServer(registry)

\* updateServerStats of the constructor and of the periodic poll, the answer
\* of one server arriving: serverRegistry.set
StatsReceived(i, n) ==
    /\ serverRegistry' = RegistrySet(serverRegistry, StatusResponse(ServerUrls[i], n))
    /\ call' = [op |-> "updateServerStats", success |-> TRUE]
    /\ UNCHANGED <<games, nextGame, playerToGame, now, lastMover, gatewayVars,
                   federationVars, chosenServer, retry, peerCache>>

\* The answers a refresh can collect: each server answers at most once, in
\* any order of arrival, with its number of connected clients.
RefreshAnswers ==
    {a \in UNION {[1 .. k -> (1 .. MaxServers) \X (0 .. MaxClients)] : k \in 0 .. MaxServers} :
        \A i, j \in DOMAIN a : i # j => a[i][1] # a[j][1]}

\* updateServerStats: serverRegistry.set for each answer as it arrives; a
\* server that does not answer keeps the entry it has.
RECURSIVE UpdateServerStats(_, _)
UpdateServerStats(registry, answers) ==
    IF answers = <<>> THEN registry
    ELSE UpdateServerStats(
             RegistrySet(registry, StatusResponse(ServerUrls[Head(answers)[1]], Head(answers)[2])),
             Tail(answers))

\* The servers that answered.
Answered(answers) == {answers[i][1] : i \in DOMAIN answers}

\* chooseOptimalServer: the refresh it awaits, then the choice.  answers are
\* the answers to the last refresh of the call; which urls answer after that
\* matters only to the fallback of an empty registry.
ChooseOptimalServer(answers, responding) ==
    /\ responding = {} \/ (Len(serverRegistry) = 0 /\ answers = <<>>)
    /\ serverRegistry' = UpdateServerStats(serverRegistry, answers)
    /\ chosenServer' = ChooseOptimalServerResult(serverRegistry', responding)
    /\ call' = [op |-> "chooseOptimalServer", success |-> TRUE,
                answered |-> Answered(answers)]
    /\ UNCHANGED <<games, nextGame, playerToGame, now, lastMover, gatewayVars,
                   federationVars, retry, peerCache>>

NextBalancer ==
    \/ \E i \in 1 .. MaxServers, n \in 0 .. MaxClients : StatsReceived(i, n)
    \/ \E answers \in RefreshAnswers, responding \in SUBSET (1 .. MaxServers) :
           ChooseOptimalServer(answers, responding)

SpecBalancer == Init /\ [][NextBalancer]_vars

---------------------------------------------------------------------------
(* Properties of the load balancer, checked under SpecBalancer.            *)

\* The least connectedClients over the registry.
MinConnectedClients ==
    CHOOSE m \in {serverRegistry[i].connectedClients : i \in DOMAIN serverRegistry} :
        \A i \in DOMAIN serverRegistry : m <= serverRegistry[i].connectedClients

---------------------------------------------------------------------------
(* Properties of arrivals by redirect, checked under SpecLobby.  A client   *)
(* that was redirected joins with the id of the game it was sent to.       *)

---------------------------------------------------------------------------
(* Properties of the status and the board of a game, checked under        *)
(* SpecPlay (C17, C18) and SpecLobby (C19).                                *)

\* C17: in every reachable state a game has status Playing exactly when it
\* has 2 players and result Ongoing.
PlayingIffTwoOngoing ==
    \A id \in DOMAIN games :
        (games[id].status = "playing")
        <=> (Len(games[id].players) = 2 /\ games[id].result = "ongoing")

\* The marked cells of game id are the same after the step.
MarksKept(id) ==
    \A c \in Cells(games[id].boardSize) :
        games[id].board[c] # Null => games'[id].board[c] = games[id].board[c]

\* C18 as stated: once a cell of a game holds X or O, no later operation
\* changes or clears it.
MarkedCellsNeverChange ==
    [][\A id \in DOMAIN games \cap DOMAIN games' : MarksKept(id)]_vars

\* C18 as the code has it: a marked cell keeps its mark through every move,
\* join, disconnect and federation event; an explicit leave from a Playing
\* game empties the whole board as it resets the game to Waiting, and nothing
\* else clears a cell.
MarkedCellsChangeOnlyByReset ==
    [][\A id \in DOMAIN games \cap DOMAIN games' :
           /\ MarksKept(id)
              \/ /\ call'.op = "leave"
                 /\ games[id].status = "playing"
                 /\ games'[id].status = "waiting"
           /\ (/\ call'.op = "leave"
               /\ games[id].status = "playing"
               /\ games'[id].status = "waiting")
              => games'[id].board = EmptyBoard(games[id].boardSize)]_vars

\* A game was cancelled by a disconnect and its marks are still on the board.
MarkedCellsChangeOnlyByResetWitness ==
    /\ call.op = "disconnect"
    /\ \E id \in DOMAIN games :
           /\ games[id].status = "finished"
           /\ games[id].result = "ongoing"
           /\ Marks(games[id]) = MaxMarks

---------------------------------------------------------------------------
(* Properties of the player index, checked under SpecLobby.                *)

\* C20: in every reachable state of the index and the games, the index that
\* removePlayerFromGame(p) leaves behind has no entry for p.
RemoveClearsMapping ==
    \A p \in Players :
        p \notin DOMAIN RemovePlayerFromGame(games, playerToGame, p, now).playerToGame

---------------------------------------------------------------------------
(* SpecShared: two sockets send Join under any player id, so that one      *)
(* socket may join for several players, and close.                         *)

NextShared ==
    \/ Connect(MaxSockets)
    \/ \E ws \in DOMAIN wsState, p \in PlayerInputs :
           Join(ws, Null, p, Null) /\ nextGame' <= MaxLobbyGames
    \/ \E ws \in DOMAIN wsState : Disconnect(ws)

SpecShared == Init /\ [][NextShared]_vars

---------------------------------------------------------------------------
(* SpecGossip: this server advertises its one-player games to a peer, and  *)
(* the peer reads every message written to its link before this server    *)
(* handles its next event.  The link stays up.                            *)

\* The name under which the server behind link l registered this server: a
\* peer that dialed in derived it from this server's port (connectToServer), a
\* peer that was dialed gave it in handleFederationPeerConnection.
NameAtPeer(l) ==
    IF links[l] = AcceptedPeer THEN ThisServer
    ELSE IF links[l] = "ServerA" THEN "ServerB" ELSE "ServerA"

\* The peer's handleFederationMessage over the messages of one link, in the
\* order they were written: only available_games changes the peer's cache.
RECURSIVE PeerHandles(_, _, _)
PeerHandles(cache, msgs, fromServerId) ==
    IF msgs = <<>> THEN cache
    ELSE LET m == Head(msgs)
             list == [i \in DOMAIN m.games |-> RemoteEntry(m.games[i], m.originServer)]
         IN PeerHandles(IF m.type = "available_games"
                        THEN HandleAvailableGames(cache, list, fromServerId)
                        ELSE cache,
                        Tail(msgs), fromServerId)

\* Nothing this server wrote is still on its way to a peer.
Delivered == \A i \in DOMAIN fedSent : fedSent[i].to = {}

\* ws.on('message') on the server behind link l, for all that is on the link.
PeerReceives(l) ==
    /\ l \in DOMAIN links
    /\ \E i \in DOMAIN fedSent : l \in fedSent[i].to
    /\ LET OnLink(m) == l \in m.to
           cache == IF l \in DOMAIN peerCache THEN peerCache[l] ELSE <<>>
       IN peerCache' = MapPut(peerCache, l,
                              PeerHandles(cache, SelectSeq(fedSent, OnLink), NameAtPeer(l)))
    /\ fedSent' = [i \in DOMAIN fedSent |-> [fedSent[i] EXCEPT !.to = @ \ {l}]]
    /\ sent' = <<>>
    /\ call' = [op |-> "peer_receives", success |-> TRUE]
    /\ UNCHANGED <<balancerVars, retry, games, nextGame, playerToGame, now, lastMover,
                   wsState, clients, clientGames, links, connectedServers, isFederated,
                   globalAvailableGames>>

NextGossip ==
    \/ Delivered /\ Connect(MaxSockets)
    \/ /\ Delivered
       /\ \E ws \in DOMAIN wsState : Join(ws, Null, PlayerOf(ws), Null)
       /\ nextGame' <= MaxLobbyGames
    \/ Delivered /\ \E ws \in DOMAIN wsState : Leave(ws, Null, PlayerOf(ws))
    \/ Delivered /\ \E ws \in DOMAIN wsState : Disconnect(ws)
    \/ Delivered /\ LinkDial
    \/ Delivered /\ LinkAccept /\ Cardinality(DOMAIN links') <= MaxFedLinks
    \/ \E l \in DOMAIN links : PeerReceives(l)

\* Messages are delivered: none stays on a link for ever.
SpecGossip ==
    Init /\ [][NextGossip]_vars /\ WF_vars(\E l \in DOMAIN links : PeerReceives(l))

---------------------------------------------------------------------------
(* SpecCreate: games are created through the service API with every board  *)
(* size and winning length of a small range, the lengths below the minimum *)
(* and above the board size included.                                      *)

CreateSizes == MinWinningLength - 1 .. MaxBoardSize

CreateLengths == MinWinningLength - 1 .. MaxBoardSize + 1

\* createGame(boardSize, winningLength)
CreateGame(boardSize, winningLength) ==
    /\ nextGame < MaxGames
    /\ nextGame' = nextGame + 1
    /\ LET id == GameNames[nextGame + 1]
       IN Commit([World EXCEPT
                    !.games = MapPut(games, id, NewGameState(id, boardSize, winningLength, now))])
    /\ call' = [op |-> "createGame", success |-> TRUE]
    /\ UNCHANGED <<balancerVars, retry, peerCache, now, wsState, federationVars>>

NextCreate ==
    \E boardSize \in CreateSizes, winningLength \in CreateLengths :
        CreateGame(boardSize, winningLength)

SpecCreate == Init /\ [][NextCreate]_vars

---------------------------------------------------------------------------
(* The retry loop of the federation service.  connectToServers arms it     *)
(* when its initial round has registered no peer.  Every tick of the       *)
(* interval starts an async callback that dials the configured ports one   *)
(* after the other, awaiting each connection; a callback can still be      *)
(* running when the next tick fires or when the interval is cleared.       *)

\* The ticks of the interval that fit in the window of the clean-up timer.
RetryWindow == RetryWindowMs \div RetryIntervalMs

\* otherPorts: the configured federation ports without this server's own.
RetryPorts == <<ServerAPort, ServerBPort + 1>>

\* `Server${port - 3000}`
PeerName(port) == ServerNames[port - FederationPortOffset]

\* The tick callbacks that run, without the c-th.
OtherRounds(c) ==
    [i \in 1 .. Len(retry.rounds) - 1 |->
        IF i < c THEN retry.rounds[i] ELSE retry.rounds[i + 1]]

\* connectToServers, the end of an initial round that registered no peer
StartFederationRetry ==
    /\ retry.interval = "none"
    /\ DOMAIN connectedServers = {}
    /\ retry' = [retry EXCEPT !.interval = "armed"]
    /\ call' = [op |-> "start_retry", success |-> TRUE]
    /\ Commit(World)
    /\ UNCHANGED <<balancerVars, peerCache, nextGame, now, wsState, federationVars>>

\* A callback that starts a round whether the server is federated or not.
RetryCallbackUnchecked(r, federated) ==
    [r EXCEPT !.rounds = Append(@, [at |-> 1, awaiting |-> FALSE])]

\* if (this.isFederated) { clearInterval(retryInterval); return; }
RetryCallback(r, federated) ==
    IF federated
    THEN [r EXCEPT !.interval = "cleared"]
    ELSE [r EXCEPT !.rounds = Append(@, [at |-> 1, awaiting |-> FALSE])]

\* The interval fires: the callback stops the interval if the server is
\* federated, and starts a round over the ports otherwise.
RetryTick ==
    /\ retry.interval = "armed"
    /\ retry.elapsed < RetryWindow
    /\ Len(retry.rounds) < MaxRounds
    /\ retry' = RetryCallback([retry EXCEPT !.elapsed = @ + 1], isFederated)
    /\ call' = [op |-> "retry_tick", success |-> ~isFederated]
    /\ Commit(World)
    /\ UNCHANGED <<balancerVars, peerCache, nextGame, now, wsState, federationVars>>

\* The loop of the callback at a port that is registered: continue
RetrySkip(c) ==
    /\ c \in DOMAIN retry.rounds
    /\ ~retry.rounds[c].awaiting
    /\ retry.rounds[c].at <= Len(RetryPorts)
    /\ PeerName(RetryPorts[retry.rounds[c].at]) \in DOMAIN connectedServers
    /\ retry' = [retry EXCEPT !.rounds[c].at = @ + 1]
    /\ call' = [op |-> "retry_skip", success |-> TRUE]
    /\ Commit(World)
    /\ UNCHANGED <<balancerVars, peerCache, nextGame, now, wsState, federationVars>>

\* The loop of the callback at a port that is not registered: new WebSocket
RetryDial(c) ==
    /\ c \in DOMAIN retry.rounds
    /\ ~retry.rounds[c].awaiting
    /\ retry.rounds[c].at <= Len(RetryPorts)
    /\ PeerName(RetryPorts[retry.rounds[c].at]) \notin DOMAIN connectedServers
    /\ retry' = [retry EXCEPT !.rounds[c].awaiting = TRUE]
    /\ call' = [op |-> "retry_dial", success |-> TRUE]
    /\ Commit(World)
    /\ UNCHANGED <<balancerVars, peerCache, nextGame, now, wsState, federationVars>>

\* waitForConnection settles: the peer is registered, or the error is swallowed
RetryDialed(c, connected) ==
    /\ c \in DOMAIN retry.rounds
    /\ retry.rounds[c].awaiting
    /\ retry' = [retry EXCEPT !.rounds[c] = [at |-> @.at + 1, awaiting |-> FALSE]]
    /\ call' = [op |-> "retry_dialed", success |-> connected]
    /\ IF connected
       THEN Register(PeerName(RetryPorts[retry.rounds[c].at]))
       ELSE /\ Commit(World)
            /\ UNCHANGED <<balancerVars, peerCache, nextGame, now, wsState, federationVars>>

\* The end of the callback: the interval is cleared if a peer is registered
RetryRoundEnd(c) ==
    /\ c \in DOMAIN retry.rounds
    /\ retry.rounds[c].at > Len(RetryPorts)
    /\ retry' = [retry EXCEPT !.rounds = OtherRounds(c),
                              !.interval = IF DOMAIN connectedServers # {}
                                           THEN "cleared" ELSE @]
    /\ call' = [op |-> "retry_round_end", success |-> DOMAIN connectedServers # {}]
    /\ Commit(World)
    /\ UNCHANGED <<balancerVars, peerCache, nextGame, now, wsState, federationVars>>

\* The clean-up timer fires after the window.  It is due together with the
\* last tick of the window and may run before it or after it.
RetryTimeout ==
    /\ retry.interval # "none"
    /\ ~retry.expired
    /\ retry.elapsed >= RetryWindow - 1
    /\ retry' = [retry EXCEPT !.interval = "cleared", !.expired = TRUE]
    /\ call' = [op |-> "retry_timeout", success |-> TRUE]
    /\ Commit(World)
    /\ UNCHANGED <<balancerVars, peerCache, nextGame, now, wsState, federationVars>>

\* The retry loop runs while peers dial in and links close.
NextDial ==
    \/ StartFederationRetry
    \/ RetryTick
    \/ \E c \in DOMAIN retry.rounds : RetrySkip(c)
    \/ \E c \in DOMAIN retry.rounds : RetryDial(c)
    \/ \E c \in DOMAIN retry.rounds, connected \in BOOLEAN : RetryDialed(c, connected)
    \/ \E c \in DOMAIN retry.rounds : RetryRoundEnd(c)
    \/ RetryTimeout
    \/ LinkAccept
    \/ \E l \in DOMAIN links : LinkClose(l)

SpecDial == Init /\ [][NextDial]_vars

\* Two peer links come and go while two clients join and go.
NextLinks ==
    \/ Connect(MaxSockets)
    \/ \E ws \in DOMAIN wsState : Join(ws, Null, PlayerOf(ws), Null)
    \/ \E ws \in DOMAIN wsState : Disconnect(ws)
    \/ LinkDial
    \/ LinkAccept
    \/ \E l \in DOMAIN links : LinkClose(l)

SpecLinks == Init /\ [][NextLinks]_vars

---------------------------------------------------------------------------
(* Properties of inbound gossip, checked under SpecFed.                    *)

\* C21: a player_joined, game_move or player_left message from a peer leaves
\* the store as the same addPlayerToGame, makeMove or removePlayerFromGame of
\* a local client would: the joined player is added to the named game, the
\* move is placed on its board, the departed player is removed.
GossipAppliedAsLocal ==
    [][\A l \in DOMAIN links :
           /\ call'.op = "fed_player_joined"
              => \A id \in DOMAIN games, p \in Players :
                     FedPlayerJoined(l, id, p, DialedPeer)
                     => LET out == AddPlayerToGame(games, playerToGame, id, p, Null,
                                                   DialedPeer, now)
                        IN games' = out.games /\ playerToGame' = out.playerToGame
           /\ call'.op = "fed_move"
              => \A id \in DOMAIN games \cup {"g7"}, p \in Players,
                    c \in GatewayMoveInputs :
                     FedMove(l, id, p, c[1], c[2], DialedPeer)
                     => games' = MakeMove(games, playerToGame, id, p, c[1], c[2],
                                          now).games
           /\ call'.op = "fed_player_left"
              => \A p \in Players :
                     FedPlayerLeft(l, p, DialedPeer)
                     => LET out == RemovePlayerFromGame(games, playerToGame, p, now)
                        IN games' = out.games /\ playerToGame' = out.playerToGame]_vars

\* The step just taken handled a message that came in over a peer link.
InboundGossip ==
    call.op \in {"fed_player_joined", "fed_move", "fed_player_left",
                 "fed_available_games"}

\* C22: handling a player_joined, game_move, player_left or available_games
\* message from a peer sends no federation message; every federation message
\* sent comes from the handler of a local client's join, move, leave or
\* disconnect and names this server as its origin.
NoGossipFromGossip ==
    /\ InboundGossip => fedSent = <<>>
    /\ fedSent # <<>>
       => /\ call.op \in {"join", "move", "leave", "disconnect"}
          /\ \A i \in DOMAIN fedSent : fedSent[i].originServer = ThisServer

\* A peer's player_left has just removed a local player while a peer link is
\* registered, and nothing was sent on.
NoGossipFromGossipWitness ==
    /\ call = [op |-> "fed_player_left", success |-> TRUE]
    /\ IsFederationActive
    /\ fedSent = <<>>

\* The entries of a cache that name serverId as the server of their game.
EntriesOf(cache, serverId) == {e \in Range(cache) : e.serverId = serverId}

\* C23: after an available_games message of server S is handled, the cache
\* entries of S are exactly the games the message lists, and the entries of
\* every other server are as before.
SnapshotReplacesSender ==
    [][call'.op = "fed_available_games"
          => \A l \in DOMAIN links, m \in AvailableGamesInputs :
                 (/\ m.originServer # ThisServer
                  /\ FedAvailableGames(l, m.list, m.originServer))
                 => /\ EntriesOf(globalAvailableGames', m.originServer) = Range(m.list)
                    /\ \A n \in Range(ServerNames) \cup {"ServerA", "ServerB"} :
                           n # m.originServer
                           => EntriesOf(globalAvailableGames', n)
                              = EntriesOf(globalAvailableGames, n)]_vars

---------------------------------------------------------------------------
(* Properties of outbound gossip, checked under SpecPlay.                  *)

\* The recipient sets of the federation messages of the given type that the
\* step sent.
SentTo(type) ==
    {fedSent'[i].to : i \in {j \in DOMAIN fedSent' : fedSent'[j].type = type}}

\* The players listed in some game of the store.
ListedPlayers == UNION {PlayerIds(games[id]) : id \in DOMAIN games}

\* C24: while a peer link is live, a successful local join sends player_joined
\* and available_games to every live peer, an accepted local move sends
\* game_move, and a leave or a disconnect of a player who is in a game sends
\* player_left.
LocalEventsGossiped ==
    [][DOMAIN links # {}
          => /\ call' = [op |-> "join", success |-> TRUE]
                => /\ SentTo("player_joined") = {DOMAIN links}
                   /\ SentTo("available_games") = {DOMAIN links}
             /\ call' = [op |-> "move", success |-> TRUE]
                => SentTo("game_move") = {DOMAIN links}
             /\ call'.op \in {"leave", "disconnect"}
                => \A ws \in DOMAIN wsState :
                       (/\ PlayerOf(ws) \in ListedPlayers
                        /\ Leave(ws, Null, PlayerOf(ws)) \/ Disconnect(ws))
                       => SentTo("player_left") = {DOMAIN links}]_vars

---------------------------------------------------------------------------
(* Properties of the peer set, checked under SpecLinks.                    *)

\* The links registered in connectedServers.
RegisteredLinks(servers) == {servers[n] : n \in DOMAIN servers}

\* C25: when a peer link closes, that link and no other leaves the set of
\* registered peers, and the server stays federation-active for as long as a
\* peer link is open.
CloseRemovesOnlyThatPeer ==
    [][call'.op = "link_close"
          => \A l \in DOMAIN links :
                 LinkClose(l)
                 => /\ RegisteredLinks(connectedServers')
                       = RegisteredLinks(connectedServers) \ {l}
                    /\ DOMAIN links' # {}
                       => isFederated' /\ DOMAIN connectedServers' # {}]_vars

\* C26: every live peer link, dialed or accepted, is registered under a
\* port-derived identifier (Server<port - 3000>), and distinct links have
\* distinct entries.
LinksRegisteredByPort ==
    /\ \A l \in DOMAIN links :
           /\ links[l] \in Range(ServerNames)
           /\ links[l] \in DOMAIN connectedServers
           /\ connectedServers[links[l]] = l
    /\ \A l1, l2 \in DOMAIN links : l1 # l2 => links[l1] # links[l2]

---------------------------------------------------------------------------
(* C27: no dial attempt is made while a peer link is established or after  *)
(* the retry window has elapsed.  Refuted: a round that registered the     *)
(* first port goes on to dial the next one, and a round that is running    *)
(* when the timer fires finishes its ports.                                *)
NoDialAfterLinkOrWindow ==
    call.op = "retry_dial" => (DOMAIN links = {} /\ ~retry.expired)

(* C27, amended: a retry round starts only at a tick of the armed interval *)
(* that finds the server not federated; a round dials only ports that are  *)
(* not registered; a tick that finds the server federated, a round that    *)
(* ends with a peer registered and the timer each clear the interval, and  *)
(* a cleared interval stays cleared and starts no round.                   *)
RetryStopsStartingRounds ==
    [][/\ (call'.op = "retry_tick" /\ call'.success)
            => /\ retry.interval = "armed" /\ ~retry.expired /\ ~isFederated
               /\ Len(retry'.rounds) = Len(retry.rounds) + 1
       /\ (call'.op = "retry_tick" /\ ~call'.success)
            => retry'.interval = "cleared" /\ retry'.rounds = retry.rounds
       /\ call'.op = "retry_dial"
            => \E c \in DOMAIN retry.rounds :
                  /\ retry'.rounds[c].awaiting /\ ~retry.rounds[c].awaiting
                  /\ PeerName(RetryPorts[retry.rounds[c].at]) \notin DOMAIN connectedServers
       /\ (call'.op = "retry_round_end" /\ DOMAIN connectedServers # {})
            => retry'.interval = "cleared"
       /\ call'.op = "retry_timeout" => retry'.interval = "cleared"
       /\ retry.interval = "cleared"
            => /\ retry'.interval = "cleared"
               /\ Len(retry'.rounds) <= Len(retry.rounds)]_vars

\* A round registered a peer and its end cleared the interval inside the window.
RetryStopsStartingRoundsWitness ==
    /\ call.op = "retry_round_end"
    /\ call.success
    /\ retry.interval = "cleared"
    /\ ~retry.expired
    /\ DOMAIN connectedServers # {}

---------------------------------------------------------------------------
(* The start of a game, checked under SpecLobby and SpecPlay.              *)

\* The socket of the client that names itself playerId.
SocketOf(playerId) == WsNames[CHOOSE i \in DOMAIN PlayerNames : PlayerNames[i] = playerId]

\* The positions in the messages of the step that hold a message of the
\* given type about the game for the socket.
SentAt(type, id, ws) ==
    {i \in DOMAIN sent' : sent'[i].type = type /\ sent'[i].gameId = id /\ sent'[i].to = ws}

\* C28: a join that brings a session from 1 to 2 players sends each of the
\* two players exactly one game_start with that player's symbol as yourSymbol
\* and the other player's symbol as opponentSymbol, before the update of that
\* join; no other step sends a game_start.
GameStartOnPairing ==
    [][\A id \in DOMAIN games' :
          LET before == IF id \in DOMAIN games THEN Len(games[id].players) ELSE 0
              g == games'[id]
          IN IF call'.op = "join" /\ before = 1 /\ Len(g.players) = 2
             THEN \A i \in 1 .. 2 :
                      LET ws == SocketOf(g.players[i].id)
                          starts == SentAt("game_start", id, ws)
                          updates == SentAt("update", id, ws)
                      IN /\ Cardinality(starts) = 1
                         /\ \A j \in starts :
                                /\ sent'[j].a = g.players[i].symbol
                                /\ sent'[j].b = g.players[3 - i].symbol
                                /\ sent'[j].a # sent'[j].b
                                /\ updates # {}
                                /\ \A u \in updates : j < u
             ELSE \A j \in DOMAIN sent' :
                      ~(sent'[j].type = "game_start" /\ sent'[j].gameId = id)]_vars

---------------------------------------------------------------------------
(* The parameters of a session, checked under SpecCreate.                  *)

\* C29: every session of the store has a winning length of at least 3 and at
\* most its board size, whatever board size and winning length createGame
\* was given.
WinningLengthWithinBoard ==
    \A id \in DOMAIN games :
        /\ MinWinningLength <= games[id].winningLength
        /\ games[id].winningLength <= games[id].boardSize

---------------------------------------------------------------------------
(* The freshness of the choice, checked under SpecBalancer.                *)

\* C30: when at least one server answered the refresh of the call,
\* chooseOptimalServer returns the address of a server that answered it.
ChosenServerAnsweredRefresh ==
    (call.op = "chooseOptimalServer" /\ call.answered # {})
    => chosenServer \in {Url(ServerUrls[i]) : i \in call.answered}

---------------------------------------------------------------------------
(* The win check against a scan of the whole board, checked under          *)
(* SpecStore.                                                              *)

\* The scan of the whole board: some marked cell lies on an unbroken run of
\* its symbol that has winningLength cells or more.
HasRun(g) ==
    \E c \in Cells(g.boardSize), d \in Range(Directions) :
        /\ g.board[c] # Null
        /\ Cardinality(RunThrough(g.board, g.boardSize, c, d)) >= g.winningLength

\* C31: a game has result Win if and only if its board holds a run of k or
\* more cells of one symbol in a row, a column or a diagonal; the board of a
\* Playing game holds no such run; and for every move the game accepts, the
\* check of the four lines through the placed cell agrees with the scan of the
\* whole board.
WinIffRunOnBoard ==
    \A id \in DOMAIN games :
        LET g == games[id]
        IN /\ g.result = "win" <=> HasRun(g)
           /\ g.status = "playing" => ~HasRun(g)
           /\ \A c \in Cells(g.boardSize), p \in PlayerIds(g) :
                  LET out == GameMakeMove(g, p, c[1], c[2], now)
                  IN out.ok => (CheckWinWithLastMove(out.game, c[1], c[2]).hasWinner
                                <=> HasRun(out.game))

\* O has won a 3x3 game on the diagonal / with its third mark.
WinIffRunOnBoardWitness ==
    \E id \in DOMAIN games :
        /\ games[id].boardSize = 3
        /\ games[id].result = "win" /\ games[id].winner = "O"
        /\ games[id].winningLine = <<2, 4, 6>>
        /\ HasRun(games[id])
        /\ Marks(games[id]) = 6

---------------------------------------------------------------------------
(* The balance of the marks, checked under SpecPlay.                       *)

\* The number of cells of the board of g that hold symbol.
CountOf(g, symbol) == Cardinality({c \in Cells(g.boardSize) : g.board[c] = symbol})

\* C32: on the board of every game the number of X cells minus the number of
\* O cells is 0 or 1, and while the game is Playing nextTurn is X exactly when
\* the two numbers are equal, also after players went and others came.
MarksBalanced ==
    \A id \in DOMAIN games :
        LET g == games[id]
        IN /\ CountOf(g, "X") - CountOf(g, "O") \in {0, 1}
           /\ g.status = "playing" => (g.nextTurn = "X" <=> CountOf(g, "X") = CountOf(g, "O"))

---------------------------------------------------------------------------
(* The player index against the player lists, checked under SpecLobby.     *)

\* C33: every entry p -> g of playerToGame names a game g that is in the
\* store and lists p among its players.
IndexRefersToListingGame ==
    \A p \in DOMAIN playerToGame :
        /\ playerToGame[p] \in DOMAIN games
        /\ HasPlayer(games[playerToGame[p]], p)

---------------------------------------------------------------------------
(* The results of addPlayerToGame, checked under SpecLobby for every call  *)
(* that can be made in a reachable state.                                  *)

\* C34: when addPlayerToGame(g, p) returns success, p is in the player list
\* of g as the call leaves it, so that handleJoin finds the player it has
\* just added.
SuccessfulAddListsPlayer ==
    \A id \in DOMAIN games, p \in Players :
        LET out == AddPlayerToGame(games, playerToGame, id, p, Null, ThisServer, now)
        IN out.success => HasPlayer(out.games[id], p)

\* C35: an addPlayerToGame that returns failure leaves playerToGame and every
\* game as they were.
FailedAddChangesNothing ==
    \A id \in DOMAIN games \cup {"nogame"}, p \in Players :
        LET out == AddPlayerToGame(games, playerToGame, id, p, Null, ThisServer, now)
        IN ~out.success => (out.games = games /\ out.playerToGame = playerToGame)

---------------------------------------------------------------------------
(* The frame of the sweep, checked under SpecLobby.                        *)

\* C36: cleanupFinishedGames removes from playerToGame only entries that name
\* a game it purges: an entry that names a game that stays is left as it was,
\* and every game that is not Finished or not older than the time-to-live is
\* left as it was.
SweepTouchesOnlyPurged ==
    [][call'.op = "sweep"
          => /\ \A p \in DOMAIN playerToGame :
                    playerToGame[p] \notin Expired(DefaultTtlMinutes)
                    => /\ p \in DOMAIN playerToGame'
                       /\ playerToGame'[p] = playerToGame[p]
             /\ \A id \in DOMAIN games \ Expired(DefaultTtlMinutes) :
                    id \in DOMAIN games' /\ games'[id] = games[id]]_vars

---------------------------------------------------------------------------
(* The clean-up of a closed socket, checked under SpecShared.              *)

\* The player ids the client map holds for socket ws: handleJoin recorded
\* each of them with clients.set(playerId, ws).
JoinedThrough(ws) == {clients[i].id : i \in {j \in DOMAIN clients : clients[j].ws = ws}}

\* C37: when a client socket closes, no player id that joined through it
\* remains in the client map or in the player list of a Waiting or Playing
\* game, also when the socket joined under several player ids.
ClosedSocketLeavesNoPlayer ==
    [][\A ws \in DOMAIN wsState :
          (wsState[ws] = "open" /\ wsState'[ws] = "closed")
          => \A p \in JoinedThrough(ws) :
                 /\ ClientsGet(clients', p) = Null
                 /\ \A id \in DOMAIN games' :
                        IsActive(games'[id]) => ~HasPlayer(games'[id], p)]_vars

---------------------------------------------------------------------------
(* The gossip of a departure, checked under SpecPlay.                      *)

\* The number of player_left messages the step wrote to link l.
PlayerLeftSentTo(l) ==
    Cardinality({i \in DOMAIN fedSent' :
                    fedSent'[i].type = "player_left" /\ l \in fedSent'[i].to})

\* C38: the departure of a player who is in a game, by a Leave or by the close
\* of its socket, sends exactly one player_left to every live peer, never two.
OnePlayerLeftPerDeparture ==
    [][call'.op \in {"leave", "disconnect"}
          => \A ws \in DOMAIN wsState :
                 (/\ PlayerOf(ws) \in ListedPlayers
                  /\ Leave(ws, Null, PlayerOf(ws)) \/ Disconnect(ws))
                 => \A l \in DOMAIN links : PlayerLeftSentTo(l) = 1]_vars

---------------------------------------------------------------------------
(* The notice of a reset, checked under SpecPlay.                          *)

\* C39: when a player leaves a Playing game by a Leave message, the opponent
\* the reset removes from the game is sent at least one message on its open
\* socket.
EvictedOpponentIsTold ==
    [][call'.op = "leave"
          => \A ws \in DOMAIN wsState, id \in DOMAIN games :
                 (/\ ws \in DOMAIN clientGames /\ clientGames[ws] = id
                  /\ games[id].status = "playing"
                  /\ HasPlayer(games[id], PlayerOf(ws))
                  /\ Leave(ws, Null, PlayerOf(ws)))
                 => \A o \in PlayerIds(games[id]) \ {PlayerOf(ws)} :
                        IsOpen(wsState, SocketOf(o))
                        => \E j \in DOMAIN sent' : sent'[j].to = SocketOf(o)]_vars

\* The games that the server behind link l holds as open to a second player.
PeerLists(l, id) ==
    /\ l \in DOMAIN peerCache
    /\ \E i \in DOMAIN peerCache[l] :
           peerCache[l][i].gameId = id /\ peerCache[l][i].playerCount = 1

\* A Waiting game with exactly one player.
OnePlayerWaiting(id) ==
    /\ id \in DOMAIN games
    /\ games[id].status = "waiting"
    /\ Len(games[id].players) = 1

GossipGames == {GameNames[i] : i \in 1 .. MaxLobbyGames}

\* C40: a game that a peer lists as available and that is no longer a
\* one-player Waiting game is eventually dropped from that peer's list, while
\* the link stays up and every message is delivered.
StaleListingExpires ==
    \A l \in {LinkNames[i] : i \in 1 .. MaxFedLinks}, id \in GossipGames :
        (PeerLists(l, id) /\ ~OnePlayerWaiting(id)) ~> ~PeerLists(l, id)

=============================================================================
